---- MODULE Spec2Model ----
(***************************************************************************)
(* Marketing Mavericks Agent: the content generator's retry loop           *)
(* (server/openai.ts, generateContent), the chat endpoint with its session *)
(* store and its two timers (server/index.ts, server/brandContext.ts), the  *)
(* browser's request layer (client/api/chatClient.ts, sendMessage), the    *)
(* message box of the chat page (client/components/InputBox.tsx) and the   *)
(* session store used on its own by a caller.                              *)
(*                                                                         *)
(* Strings of the program are TLA+ strings.  Time is in milliseconds.      *)
(***************************************************************************)
EXTENDS Integers, Sequences, FiniteSets, TLC

VARIABLES
    \* ---- one call of generateContent (openai.ts) ----
    gpc,            \* position: "idle", "awaitUpstream", "awaitDelay", "returned", "thrown"
    maxRetries,     \* the maxRetries argument
    attempt,        \* the loop counter
    lastError,      \* let lastError: Error | null
    isRateLimited,  \* let isRateLimited
    gresult,        \* the returned content or the message of the thrown Error
    calls,          \* number of openai.chat.completions.create calls issued
    waits,          \* the setTimeout delays awaited, in order
    outcomes,       \* the upstream outcomes seen, in order
    genInput,       \* the userMessage, conversationHistory, brandContext arguments
    messages,       \* const messages: the list built before the loop
    sentMessages,   \* the messages argument of each create call, in order
    \* ---- the server (index.ts, brandContext.ts) ----
    contexts,       \* BrandContextStore.contexts of the singleton store
    hpc,            \* per request: "idle", "racing" (awaiting Promise.race), "done"
    request,        \* per request: the body it arrived with
    genArgs,        \* per request: the arguments generateContent was called with
    genState,       \* per request: generationPromise "none", "pending", "resolved", "rejected"
    effSid,         \* per request: effectiveSessionId
    fired,          \* per request: the timers whose callback has run
    clock,          \* per request: ms from its arrival to its latest timer callback
    sent,           \* per request: the responses written to res, in order
    escaped,        \* per request: an exception left the handler uncaught
    lastSupplied,   \* history: per session id, the context last supplied under it
    everSupplied,   \* history: per session id, the contexts ever supplied under it
    \* ---- one call of ChatClient.sendMessage (chatClient.ts) ----
    cpc,            \* position: "idle", "awaitFetch", "awaitDelay", "returned", "thrown"
    retryCount,     \* the retryCount argument of the running invocation
    fetchCalls,     \* number of fetch calls issued
    cwaits,         \* the setTimeout delays awaited between attempts, in order
    cresult,        \* the returned data or the message of the thrown Error
    fetched,        \* the outcomes of the fetch calls, in order
    cclock,         \* ms from the start of the current attempt to its abort timer callback
    \* ---- the InputBox component (InputBox.tsx) ----
    input,          \* state: the text of the textarea
    validationError,\* state: the message shown above the textarea, or null
    disabled,       \* the disabled prop
    onSendCalls,    \* the arguments onSend was called with, in order
    \* ---- the App component (App.tsx) ----
    appMessages,    \* state messages: the conversation list
    isLoading,      \* state isLoading: a handleSend is awaiting chatClient.sendMessage
    appError,       \* state error: the text of the banner, or null
    lastFailedMessage, \* state lastFailedMessage: the text Retry resubmits, or null
    sendMessageCalls,  \* the calls of chatClient.sendMessage, in order
    \* ---- a caller of BrandContextStore ----
    held,           \* the context objects the caller holds, in order of acquisition
    lastOp,         \* the latest store operation and what it returned
    live            \* history: the ids written since their last delete or clear

genVars == <<gpc, maxRetries, attempt, lastError, isRateLimited, gresult,
             calls, waits, outcomes, genInput, messages, sentMessages>>

srvVars == <<contexts, hpc, request, genArgs, genState, effSid, fired, clock,
             sent, escaped, lastSupplied, everSupplied>>

boxVars == <<input, validationError, disabled, onSendCalls>>

appVars == <<appMessages, isLoading, appError, lastFailedMessage,
             sendMessageCalls>>

cliVars == <<cpc, retryCount, fetchCalls, cwaits, cresult, fetched, cclock,
             boxVars, appVars>>

stoVars == <<held, lastOp, live>>

vars == <<genVars, srvVars, cliVars, stoVars>>

(***************************************************************************)
(* Bounds of the model.                                                    *)
(***************************************************************************)
MaxRetriesBound == 3
NumSlots == 2
MaxHeld == 1
MaxSends == 2
MaxAppSends == 3

(***************************************************************************)
(* Helpers on strings.                                                     *)
(***************************************************************************)
\* String.prototype.includes
Includes(t, n) ==
    \E i \in 1..(Len(t) - Len(n) + 1) : SubSeq(t, i, i + Len(n) - 1) = n

RECURSIVE Pow2(_)
\* Math.pow(2, k)
Pow2(k) == IF k = 0 THEN 1 ELSE 2 * Pow2(k - 1)

(***************************************************************************)
(* The upstream (OpenAI) boundary: what one call of                        *)
(* openai.chat.completions.create can do.  status = 0 stands for an error  *)
(* object without a status property.                                       *)
(***************************************************************************)
Completion(t) == [kind |-> "completion", status |-> 0, text |-> t]
UpstreamError(s, t) == [kind |-> "error", status |-> s, text |-> t]

ErrorStatuses == {429, 401, 400, 503, 404, 0}
ErrorTexts == {"Service down", "Failed to fetch", "network unreachable"}

UpstreamOutcomes ==
    {Completion("Generated copy"), Completion("")}
      \cup {UpstreamError(s, t) : s \in ErrorStatuses, t \in ErrorTexts}

NullError == [isNull |-> TRUE, status |-> 0, text |-> ""]
ErrorOf(s, t) == [isNull |-> FALSE, status |-> s, text |-> t]

(***************************************************************************)
(* The messages generateContent throws.                                    *)
(***************************************************************************)
AuthMessage == "API authentication failed. Please check your OpenAI API key."
InvalidRequestMessage ==
    "Invalid request to OpenAI API. Please try rephrasing your message."
UnavailableMessage ==
    "OpenAI service is temporarily unavailable. Please try again in a moment."
NetworkMessage ==
    "Network connection error. Please check your internet connection and try again."
HighDemandMessage ==
    "The service is experiencing high demand. Please wait a moment and try again."
NoResponseText == "No response from OpenAI"

\* `Unable to generate content: ${lastError?.message || 'Unknown error'}. Please try again.`
GenericMessage(err) ==
    "Unable to generate content: "
       \o (IF err.isNull \/ err.text = "" THEN "Unknown error" ELSE err.text)
       \o ". Please try again."

(***************************************************************************)
(* The catch block of the retry loop: what one caught error leads to on    *)
(* attempt a of mr.                                                        *)
(*   "delay": await a timer of .ms milliseconds, then continue             *)
(*   "throw": throw Error(.msg) out of generateContent                     *)
(*   "fall":  leave the catch block, the for statement increments attempt  *)
(***************************************************************************)
Delay(ms, rl) == [act |-> "delay", ms |-> ms, msg |-> "", rl |-> rl]

\* a plausible slip: 401 and 400 wait and retry like the other errors
ThrowAsRetry(msg) == Delay(1000, FALSE)

\* throw new Error(msg)
Throw(msg) == [act |-> "throw", ms |-> 0, msg |-> msg, rl |-> FALSE]

\* a plausible slip: a fixed one-second delay in place of the backoff
RateLimitFixedDelay(a) == Delay(1000, TRUE)

\* a plausible slip: a rate-limited attempt is retried at once
RateLimitNoWait(a) == [act |-> "fall", ms |-> 0, msg |-> "", rl |-> TRUE]

\* status 429: isRateLimited = true; wait Math.pow(2, attempt) * 1000; continue
RateLimitBranch(a) == Delay(Pow2(a) * 1000, TRUE)

\* a plausible slip: the throw after the last attempt is missing
RetryWithoutThrow(a, mr, msg) ==
    IF a < mr - 1 THEN Delay(1000, FALSE)
                  ELSE [act |-> "fall", ms |-> 0, msg |-> "", rl |-> FALSE]

\* if (attempt < maxRetries - 1) { wait 1000; continue; } throw new Error(msg)
RetryOrThrow(a, mr, msg) ==
    IF a < mr - 1 THEN Delay(1000, FALSE) ELSE Throw(msg)

\* a plausible slip: the other errors are retried without a delay
FallWithoutDelay(a, mr) == [act |-> "fall", ms |-> 0, msg |-> "", rl |-> FALSE]

\* if (attempt < maxRetries - 1) { wait 1000; continue; }
RetryOrFall(a, mr) ==
    IF a < mr - 1 THEN Delay(1000, FALSE)
                  ELSE [act |-> "fall", ms |-> 0, msg |-> "", rl |-> FALSE]

\* a plausible slip: the server-error message carries the upstream text
CatchBlockLeaksText(err, a, mr) ==
    IF err.status = 429 THEN RateLimitBranch(a)
    ELSE IF err.status = 401 THEN Throw(AuthMessage)
    ELSE IF err.status = 400 THEN Throw(InvalidRequestMessage)
    ELSE IF err.status >= 500
      THEN RetryOrThrow(a, mr, UnavailableMessage \o " (" \o err.text \o ")")
    ELSE IF Includes(err.text, "fetch") \/ Includes(err.text, "network")
      THEN RetryOrThrow(a, mr, NetworkMessage)
    ELSE RetryOrFall(a, mr)

\* the if statements of the catch block, in their order
CatchBlock(err, a, mr) ==
    IF err.status = 429 THEN RateLimitBranch(a)
    ELSE IF err.status = 401 THEN Throw(AuthMessage)
    ELSE IF err.status = 400 THEN Throw(InvalidRequestMessage)
    ELSE IF err.status >= 500 THEN RetryOrThrow(a, mr, UnavailableMessage)
    ELSE IF Includes(err.text, "fetch") \/ Includes(err.text, "network")
      THEN RetryOrThrow(a, mr, NetworkMessage)
    ELSE RetryOrFall(a, mr)

\* The error the catch block receives for an upstream outcome: the upstream
\* error itself, or the Error thrown for an empty or absent content.
CaughtError(o) ==
    IF o.kind = "error" THEN ErrorOf(o.status, o.text)
                        ELSE ErrorOf(0, NoResponseText)

(***************************************************************************)
(* The message list built before the loop.  A history entry is a record    *)
(* with a role and a content.  A prompt is the template it is built from,  *)
(* the platform and the brand context written into it; template "null"     *)
(* stands for the null that detectContentTypeAndGetPrompt returns.          *)
(***************************************************************************)
\* { role, content }
ChatMessage(role, content) == [role |-> role, content |-> content]

RECURSIVE toLowerCase(_)
\* String.prototype.toLowerCase, on the letters A-Z
toLowerCase(s) ==
    IF s = "" THEN ""
    ELSE LET upper == "ABCDEFGHIJKLMNOPQRSTUVWXYZ"
             lower == "abcdefghijklmnopqrstuvwxyz"
             c == SubSeq(s, 1, 1)
             at == {i \in 1..Len(upper) : SubSeq(upper, i, i) = c}
         IN (IF at = {} THEN c
             ELSE LET i == CHOOSE j \in at : TRUE IN SubSeq(lower, i, i))
              \o toLowerCase(SubSeq(s, 2, Len(s)))

\* getBlogPostPrompt(brandContext), getSocialMediaPrompt(platform,
\* brandContext), ...: the prompt of a template
Prompt(template, platform, brandContext) ==
    [template |-> template, platform |-> platform, brandContext |-> brandContext]

socialPlatforms ==
    <<"twitter", "x", "linkedin", "facebook", "instagram", "social media">>

\* a plausible slip: the campaign templates are looked for before the ad
\* template
DetectCampaignBeforeAd(userMessage, brandContext) ==
    LET lowerMessage == toLowerCase(userMessage)
        found == {i \in 1..Len(socialPlatforms) :
                     Includes(lowerMessage, socialPlatforms[i])}
    IN  IF Includes(lowerMessage, "blog") \/ Includes(lowerMessage, "article")
          THEN Prompt("blogPost", "", brandContext)
        ELSE IF found # {}
          THEN Prompt("socialMedia",
                      socialPlatforms[CHOOSE i \in found : \A j \in found : i <= j],
                      brandContext)
        ELSE IF Includes(lowerMessage, "email")
          THEN Prompt("emailMarketing", "", brandContext)
        ELSE IF Includes(lowerMessage, "campaign strategy")
                \/ Includes(lowerMessage, "marketing strategy")
          THEN Prompt("campaignStrategy", "", brandContext)
        ELSE IF Includes(lowerMessage, "campaign idea")
                \/ Includes(lowerMessage, "campaign concept")
          THEN Prompt("campaignIdeas", "", brandContext)
        ELSE IF Includes(lowerMessage, "ad") \/ Includes(lowerMessage, "advertisement")
          THEN Prompt("adCopy", "", brandContext)
        ELSE Prompt("null", "", brandContext)

\* detectContentTypeAndGetPrompt(userMessage, brandContext)
detectContentTypeAndGetPrompt(userMessage, brandContext) ==
    LET lowerMessage == toLowerCase(userMessage)
        found == {i \in 1..Len(socialPlatforms) :
                     Includes(lowerMessage, socialPlatforms[i])}
    IN  IF Includes(lowerMessage, "blog") \/ Includes(lowerMessage, "article")
          THEN Prompt("blogPost", "", brandContext)
        ELSE IF found # {}
          THEN Prompt("socialMedia",
                      socialPlatforms[CHOOSE i \in found : \A j \in found : i <= j],
                      brandContext)
        ELSE IF Includes(lowerMessage, "email")
          THEN Prompt("emailMarketing", "", brandContext)
        ELSE IF Includes(lowerMessage, "ad") \/ Includes(lowerMessage, "advertisement")
          THEN Prompt("adCopy", "", brandContext)
        ELSE IF Includes(lowerMessage, "campaign strategy")
                \/ Includes(lowerMessage, "marketing strategy")
          THEN Prompt("campaignStrategy", "", brandContext)
        ELSE IF Includes(lowerMessage, "campaign idea")
                \/ Includes(lowerMessage, "campaign concept")
          THEN Prompt("campaignIdeas", "", brandContext)
        ELSE Prompt("null", "", brandContext)

\* buildSystemPrompt(userMessage, brandContext): the specialized prompt if
\* there is one, else the general prompt
buildSystemPrompt(userMessage, brandContext) ==
    LET specializedPrompt == detectContentTypeAndGetPrompt(userMessage, brandContext)
    IN  IF specializedPrompt.template # "null" THEN specializedPrompt
        ELSE Prompt("general", "", brandContext)

\* a plausible slip: every history entry is passed on, whatever its role
HistoryUnfiltered(history) ==
    [i \in 1..Len(history) |-> ChatMessage(history[i].role, history[i].content)]

RECURSIVE HistoryMessages(_)
\* for (const msg of conversationHistory)
\*   if (msg.role === 'user' || msg.role === 'assistant') messages.push(...)
HistoryMessages(history) ==
    IF history = <<>> THEN <<>>
    ELSE IF Head(history).role = "user" \/ Head(history).role = "assistant"
           THEN <<ChatMessage(Head(history).role, Head(history).content)>>
                  \o HistoryMessages(Tail(history))
    ELSE HistoryMessages(Tail(history))

BuildMessages(userMessage, conversationHistory, brandContext) ==
    <<ChatMessage("system", buildSystemPrompt(userMessage, brandContext))>>
       \o HistoryMessages(conversationHistory)
       \o <<ChatMessage("user", userMessage)>>

\* The statements after the loop.
AfterLoop(rl, err) ==
    IF rl THEN HighDemandMessage ELSE GenericMessage(err)

\* a plausible slip: the loop test is attempt <= maxRetries
LoopHeadInclusive(a, mr, rl, err) ==
    IF a <= mr
      THEN /\ gpc' = "awaitUpstream"
           /\ calls' = calls + 1
           /\ sentMessages' = Append(sentMessages, messages')
           /\ gresult' = gresult
      ELSE /\ gpc' = "thrown"
           /\ calls' = calls
           /\ sentMessages' = sentMessages
           /\ gresult' = AfterLoop(rl, err)

\* The head of the for statement with counter a: either the next upstream
\* call is issued or the loop is left and the statements after it throw.
LoopHead(a, mr, rl, err) ==
    IF a < mr
      THEN /\ gpc' = "awaitUpstream"
           /\ calls' = calls + 1
           /\ sentMessages' = Append(sentMessages, messages')
           /\ gresult' = gresult
      ELSE /\ gpc' = "thrown"
           /\ calls' = calls
           /\ sentMessages' = sentMessages
           /\ gresult' = AfterLoop(rl, err)

(***************************************************************************)
(* generateContent                                                         *)
(***************************************************************************)
GenInit ==
    /\ gpc = "idle"
    /\ maxRetries = 0
    /\ attempt = 0
    /\ lastError = NullError
    /\ isRateLimited = FALSE
    /\ gresult = ""
    /\ calls = 0
    /\ waits = <<>>
    /\ outcomes = <<>>
    /\ genInput = <<>>
    /\ messages = <<>>
    /\ sentMessages = <<>>

\* generateContent(userMessage, conversationHistory, brandContext, mr) is
\* called and runs up to its first await.
GenerateContent(userMessage, conversationHistory, brandContext, mr) ==
    /\ gpc = "idle"
    /\ maxRetries' = mr
    /\ genInput' = [userMessage |-> userMessage,
                    conversationHistory |-> conversationHistory,
                    brandContext |-> brandContext]
    /\ messages' = BuildMessages(userMessage, conversationHistory, brandContext)
    /\ attempt' = 0
    /\ lastError' = NullError
    /\ isRateLimited' = FALSE
    /\ LoopHead(0, mr, FALSE, NullError)
    /\ UNCHANGED <<waits, outcomes, srvVars, cliVars, stoVars>>

\* The outstanding upstream call settles with outcome o; the loop body runs up
\* to the next await, return or throw.
UpstreamSettles(o) ==
    /\ gpc = "awaitUpstream"
    /\ outcomes' = Append(outcomes, o)
    /\ UNCHANGED <<maxRetries, genInput, messages, srvVars, cliVars, stoVars>>
    /\ IF o.kind = "completion" /\ o.text # ""
         THEN /\ gpc' = "returned"
              /\ gresult' = o.text
              /\ UNCHANGED <<attempt, lastError, isRateLimited, calls, waits,
                             sentMessages>>
         ELSE LET err == CaughtError(o)
                  c == CatchBlock(err, attempt, maxRetries)
                  rl == isRateLimited \/ c.rl
              IN /\ lastError' = err
                 /\ isRateLimited' = rl
                 /\ CASE c.act = "delay" ->
                           /\ gpc' = "awaitDelay"
                           /\ waits' = Append(waits, c.ms)
                           /\ UNCHANGED <<attempt, gresult, calls, sentMessages>>
                      [] c.act = "throw" ->
                           /\ gpc' = "thrown"
                           /\ gresult' = c.msg
                           /\ UNCHANGED <<attempt, calls, waits, sentMessages>>
                      [] c.act = "fall" ->
                           /\ attempt' = attempt + 1
                           /\ LoopHead(attempt + 1, maxRetries, rl, err)
                           /\ UNCHANGED waits

\* The awaited setTimeout fires; continue: the for statement increments
\* attempt and tests it.
DelayElapses ==
    /\ gpc = "awaitDelay"
    /\ attempt' = attempt + 1
    /\ messages' = messages
    /\ LoopHead(attempt + 1, maxRetries, isRateLimited, lastError)
    /\ UNCHANGED <<maxRetries, lastError, isRateLimited, waits, outcomes,
                   genInput, srvVars, cliVars, stoVars>>

\* conversation histories of up to MaxHistory entries with roles user,
\* assistant and system; the content of an entry tells its place
MaxHistory == 3
HistoryRoles == {"user", "assistant", "system"}
ConversationHistories ==
    UNION {[1..n -> HistoryRoles] : n \in 0..MaxHistory}
WithContents(roles) ==
    [i \in 1..Len(roles) |->
        [id |-> ToString(i), role |-> roles[i],
         content |-> "entry " \o ToString(i), timestamp |-> i]]

\* one call of generateContent with a conversation history
MessagesNext ==
    \/ \E m \in {"Write a tagline", "Draft an email"},
          h \in ConversationHistories, mr \in 0..MaxRetriesBound :
          GenerateContent(m, WithContents(h), [t |-> "undefined"], mr)
    \/ \E o \in {Completion("Generated copy"), UpstreamError(503, "Service down")} :
          UpstreamSettles(o)
    \/ DelayElapses

GenNext ==
    \/ \E mr \in 0..MaxRetriesBound :
          GenerateContent("Write a tagline", <<>>, [t |-> "undefined"], mr)
    \/ \E o \in UpstreamOutcomes : UpstreamSettles(o)
    \/ DelayElapses

(***************************************************************************)
(* JavaScript values of a request body.  A string is the sequence of its   *)
(* runs <<char, count>> (run-length form, adjacent runs of different       *)
(* chars), so that a 5000-character message is a small value.  Chars:      *)
(* "a", "b" (printing), "sp" (space), "tab", "nul" (\0).                   *)
(***************************************************************************)
Undefined == [t |-> "undefined"]
Null == [t |-> "null"]
Num == [t |-> "number"]
Str(runs) == [t |-> "string", runs |-> runs]
Arr(items) == [t |-> "array", items |-> items]
Obj(fields) == [t |-> "object", v |-> fields]
\* a short string given literally
Text(s) == [t |-> "text", s |-> s]

\* what \s matches and trim removes, among the model's chars
IsWhitespace(ch) == ch \in {"sp", "tab"}

RECURSIVE StrLength(_)
\* String.prototype.length
StrLength(runs) ==
    IF runs = <<>> THEN 0 ELSE Head(runs)[2] + StrLength(Tail(runs))

\* a plausible slip: an object without fields counts as no value
TruthyUnlessEmptyObject(x) ==
    /\ x.t \notin {"undefined", "null"}
    /\ ~(x.t = "string" /\ x.runs = <<>>)
    /\ ~(x.t = "text" /\ x.s = "")
    /\ ~(x.t = "object" /\ DOMAIN x.v = {})

\* JavaScript truthiness of a body value (numbers of the model are non-zero)
Truthy(x) ==
    /\ x.t \notin {"undefined", "null"}
    /\ ~(x.t = "string" /\ x.runs = <<>>)
    /\ ~(x.t = "text" /\ x.s = "")

\* typeof x === 'string'
IsString(x) == x.t \in {"string", "text"}

\* input.replace(/\0/g, ' ')
ReplaceNulls(runs) ==
    [i \in 1..Len(runs) |->
        IF runs[i][1] = "nul" THEN <<"sp", runs[i][2]>> ELSE runs[i]]

RECURSIVE TrimStart(_)
TrimStart(runs) ==
    IF runs = <<>> THEN <<>>
    ELSE IF IsWhitespace(Head(runs)[1]) THEN TrimStart(Tail(runs))
    ELSE runs

RECURSIVE TrimEnd(_)
TrimEnd(runs) ==
    IF runs = <<>> THEN <<>>
    ELSE IF IsWhitespace(runs[Len(runs)][1])
           THEN TrimEnd(SubSeq(runs, 1, Len(runs) - 1))
    ELSE runs

\* String.prototype.trim
Trim(runs) == TrimEnd(TrimStart(runs))

RECURSIVE CollapseWhitespace(_)
\* sanitized.replace(/\s+/g, ' '): every maximal run of whitespace becomes
\* one space
CollapseWhitespace(runs) ==
    IF runs = <<>> THEN <<>>
    ELSE IF IsWhitespace(Head(runs)[1])
           THEN <<(<<"sp", 1>>)>> \o CollapseWhitespace(TrimStart(runs))
    ELSE <<Head(runs)>> \o CollapseWhitespace(Tail(runs))

\* a plausible slip: the string is trimmed before the null characters are
\* replaced
SanitizeTrimFirst(runs) == CollapseWhitespace(ReplaceNulls(Trim(runs)))

\* sanitizeInput(input)
sanitizeInput(runs) == CollapseWhitespace(Trim(ReplaceNulls(runs)))

MAX_MESSAGE_LENGTH == 5000
MAX_HISTORY_LENGTH == 50

(***************************************************************************)
(* The validation part of the chat handler.  The result is the 400 answer  *)
(* of the first failing check, "ok", or the TypeError that reading         *)
(* msg.role of a null history entry throws.                                *)
(***************************************************************************)
MessageTypeError == "Invalid request: message is required and must be a string"
MessageEmptyError == "Invalid request: message cannot be empty"
MessageTooLongError ==
    "Invalid request: message exceeds maximum length of "
        \o ToString(MAX_MESSAGE_LENGTH) \o " characters"
HistoryTypeError == "Invalid request: history must be an array"
HistoryTooLongError ==
    "Invalid request: history exceeds maximum length of "
        \o ToString(MAX_HISTORY_LENGTH) \o " messages"
HistoryItemError == "Invalid request: history messages must have role and content"
NullRoleTypeError == "Cannot read properties of null (reading 'role')"

\* !msg.role || !msg.content || typeof msg.content !== 'string'
HistoryItemRejected(msg) ==
    \/ ~Truthy(msg.role)
    \/ ~Truthy(msg.content)
    \/ ~IsString(msg.content)

RECURSIVE ValidateHistoryItems(_)
\* for (const msg of history) { ... }
ValidateHistoryItems(items) ==
    IF items = <<>> THEN [kind |-> "ok", error |-> ""]
    ELSE IF Head(items).t = "null"
           THEN [kind |-> "throw", error |-> NullRoleTypeError]
    ELSE IF HistoryItemRejected(Head(items))
           THEN [kind |-> "reject", error |-> HistoryItemError]
    ELSE ValidateHistoryItems(Tail(items))

\* a plausible slip: the length limit is applied to the message as received
ValidateRawLength(body) ==
    IF body.message.t # "string"
      THEN [kind |-> "reject", error |-> MessageTypeError]
    ELSE IF StrLength(sanitizeInput(body.message.runs)) = 0
      THEN [kind |-> "reject", error |-> MessageEmptyError]
    ELSE IF StrLength(body.message.runs) > MAX_MESSAGE_LENGTH
      THEN [kind |-> "reject", error |-> MessageTooLongError]
    ELSE IF body.history.t # "undefined" /\ body.history.t # "array"
      THEN [kind |-> "reject", error |-> HistoryTypeError]
    ELSE IF body.history.t = "array" /\ Len(body.history.items) > MAX_HISTORY_LENGTH
      THEN [kind |-> "reject", error |-> HistoryTooLongError]
    ELSE IF body.history.t = "array"
      THEN ValidateHistoryItems(body.history.items)
    ELSE [kind |-> "ok", error |-> ""]

\* a plausible slip: the entries are checked before the length of the history
ValidateItemsFirst(body) ==
    IF body.message.t # "string"
      THEN [kind |-> "reject", error |-> MessageTypeError]
    ELSE IF StrLength(sanitizeInput(body.message.runs)) = 0
      THEN [kind |-> "reject", error |-> MessageEmptyError]
    ELSE IF StrLength(sanitizeInput(body.message.runs)) > MAX_MESSAGE_LENGTH
      THEN [kind |-> "reject", error |-> MessageTooLongError]
    ELSE IF body.history.t # "undefined" /\ body.history.t # "array"
      THEN [kind |-> "reject", error |-> HistoryTypeError]
    ELSE IF body.history.t = "array"
            /\ ValidateHistoryItems(body.history.items).kind # "ok"
      THEN ValidateHistoryItems(body.history.items)
    ELSE IF body.history.t = "array" /\ Len(body.history.items) > MAX_HISTORY_LENGTH
      THEN [kind |-> "reject", error |-> HistoryTooLongError]
    ELSE [kind |-> "ok", error |-> ""]

\* the checks of the handler, lines 155-207, in their order
ValidateRequest(body) ==
    IF body.message.t # "string"
      THEN [kind |-> "reject", error |-> MessageTypeError]
    ELSE IF StrLength(sanitizeInput(body.message.runs)) = 0
      THEN [kind |-> "reject", error |-> MessageEmptyError]
    ELSE IF StrLength(sanitizeInput(body.message.runs)) > MAX_MESSAGE_LENGTH
      THEN [kind |-> "reject", error |-> MessageTooLongError]
    ELSE IF body.history.t # "undefined" /\ body.history.t # "array"
      THEN [kind |-> "reject", error |-> HistoryTypeError]
    ELSE IF body.history.t = "array" /\ Len(body.history.items) > MAX_HISTORY_LENGTH
      THEN [kind |-> "reject", error |-> HistoryTooLongError]
    ELSE IF body.history.t = "array"
      THEN ValidateHistoryItems(body.history.items)
    ELSE [kind |-> "ok", error |-> ""]

(***************************************************************************)
(* BrandContextStore.  A brand context is a function from some of the      *)
(* field names to strings; the store's Map is a function from the stored   *)
(* session ids to brand contexts.                                          *)
(***************************************************************************)
EmptyMap == <<>>

\* a plausible slip: an existing record is kept
StoreSetIfAbsent(m, id, ctx) ==
    [k \in (DOMAIN m) \cup {id} |-> IF k \in DOMAIN m THEN m[k] ELSE ctx]

\* a plausible slip: the new context is merged into the existing record
StoreSetMerging(m, id, ctx) ==
    [k \in (DOMAIN m) \cup {id} |->
        IF k # id THEN m[k]
        ELSE [f \in (IF id \in DOMAIN m THEN DOMAIN m[id] ELSE {}) \cup (DOMAIN ctx) |->
                 IF f \in DOMAIN ctx THEN ctx[f] ELSE m[id][f]]]

\* this.contexts.set(sessionId, { ...context })
StoreSet(m, id, ctx) ==
    [k \in (DOMAIN m) \cup {id} |-> IF k = id THEN ctx ELSE m[k]]

\* this.contexts.has(sessionId)
StoreHas(m, id) == id \in DOMAIN m

\* const context = this.contexts.get(sessionId);
\* return context ? { ...context } : undefined
StoreGet(m, id) == IF id \in DOMAIN m THEN Obj(m[id]) ELSE Undefined

\* { ...existing, ...context }
Spread(existing, ctx) ==
    [f \in (DOMAIN existing) \cup (DOMAIN ctx) |->
        IF f \in DOMAIN ctx THEN ctx[f] ELSE existing[f]]

\* update(sessionId, context)
StoreUpdate(m, id, ctx) ==
    StoreSet(m, id, Spread(IF id \in DOMAIN m THEN m[id] ELSE <<>>, ctx))

\* this.contexts.delete(sessionId): the map afterwards
StoreDelete(m, id) == [k \in (DOMAIN m) \ {id} |-> m[k]]

\* this.contexts.size
StoreSize(m) == Cardinality(DOMAIN m)

(***************************************************************************)
(* The chat endpoint.  Slots 1..NumSlots hold the requests in flight; each *)
(* handler's locals are the slot's entries.                                *)
(***************************************************************************)
Slots == 1..NumSlots

GENERATION_TIMEOUT_MS == 29000
RESPONSE_TIMEOUT_MS == 30000

\* `session_${Date.now()}_${Math.random().toString(36).substr(2, 9)}`
DateNowValues == {"1700000000000"}
RandomSuffixes == {"k3x9q2m1z", "i"}
GeneratedSessionIds ==
    {"session_" \o ts \o "_" \o rnd : ts \in DateNowValues, rnd \in RandomSuffixes}

ClientSessionIds == {"s1"}
AllSessionIds == ClientSessionIds \cup GeneratedSessionIds

\* what the upstream generates for a user message
CompletionFor(message) == [t |-> "completion", of |-> message]

\* the answers of the endpoint
ErrorResponse(status, text) ==
    [status |-> status, success |-> FALSE, response |-> Undefined,
     error |-> Text(text), sessionId |-> Undefined]

\* a plausible slip: the session id is put into the response as it is
ChatResponseAnyId(response, sid) ==
    [status |-> 200, success |-> TRUE, response |-> response,
     error |-> Undefined, sessionId |-> sid]

\* chatResponse = { response, success: true } plus sessionId if truthy
ChatResponse(response, sid) ==
    [status |-> 200, success |-> TRUE, response |-> response,
     error |-> Undefined, sessionId |-> IF Truthy(sid) THEN sid ELSE Undefined]

TimeoutResponse ==
    ErrorResponse(408, "Request timeout - response took longer than 30 seconds")

\* the catch block of the handler
FailureResponse(message) ==
    ErrorResponse(500, "Failed to generate response: " \o message)

GenerationTimeoutText == "Generation timeout"

\* res.json on a response whose headers are already sent throws
\* (ERR_HTTP_HEADERS_SENT)
HeadersSent(r) == sent[r] # <<>>

\* a plausible slip: the text to answer with is kept in a variable shared by
\* all requests, here holding what was generated for the request of slot 1
ResumeResolvedShared(r, text) ==
    /\ sent' = [sent EXCEPT ![r] =
                  <<[status |-> 200, success |-> TRUE,
                     response |-> [t |-> "completion", of |-> genArgs[1].message],
                     error |-> Undefined,
                     sessionId |-> IF Truthy(effSid[r]) THEN effSid[r] ELSE Undefined]>>]
    /\ UNCHANGED escaped

\* The handler resumes after Promise.race with the generated text: res.json
\* in the try block; if that throws, the catch block's res.json throws too and
\* the exception leaves the handler.
ResumeResolved(r, text) ==
    IF HeadersSent(r)
      THEN /\ escaped' = [escaped EXCEPT ![r] = TRUE]
           /\ UNCHANGED sent
      ELSE /\ sent' = [sent EXCEPT ![r] = <<ChatResponse(text, effSid[r])>>]
           /\ UNCHANGED escaped

\* a plausible slip: the catch block rethrows instead of answering
ResumeRejectedRethrow(r, message) ==
    /\ escaped' = [escaped EXCEPT ![r] = TRUE]
    /\ UNCHANGED sent

\* The handler resumes after Promise.race with a rejection: the catch block.
ResumeRejected(r, message) ==
    IF HeadersSent(r)
      THEN /\ escaped' = [escaped EXCEPT ![r] = TRUE]
           /\ UNCHANGED sent
      ELSE /\ sent' = [sent EXCEPT ![r] = <<FailureResponse(message)>>]
           /\ UNCHANGED escaped

\* a plausible slip: the store is left for the success path to write, so that
\* nothing is stored when generation starts
ResolveDeferredStore(m, brandContext, sessionId, g) ==
    IF Truthy(brandContext) /\ Truthy(sessionId)
      THEN [store |-> m, ctx |-> brandContext, sid |-> sessionId, stored |-> TRUE]
    ELSE IF ~Truthy(brandContext) /\ Truthy(sessionId) /\ StoreHas(m, sessionId.s)
      THEN [store |-> m, ctx |-> StoreGet(m, sessionId.s), sid |-> sessionId,
            stored |-> FALSE]
    ELSE IF Truthy(brandContext) /\ ~Truthy(sessionId)
      THEN [store |-> m, ctx |-> brandContext, sid |-> Text(g), stored |-> TRUE]
    ELSE [store |-> m, ctx |-> brandContext, sid |-> sessionId, stored |-> FALSE]

\* a plausible slip: a record already stored under the session id is used in
\* place of the context the request brings
ResolveStoredWins(m, brandContext, sessionId, g) ==
    IF Truthy(sessionId) /\ StoreHas(m, sessionId.s)
      THEN [store |-> IF Truthy(brandContext)
                        THEN StoreSet(m, sessionId.s, brandContext.v) ELSE m,
            ctx |-> StoreGet(m, sessionId.s), sid |-> sessionId,
            stored |-> Truthy(brandContext)]
    ELSE IF Truthy(brandContext) /\ Truthy(sessionId)
      THEN [store |-> StoreSet(m, sessionId.s, brandContext.v),
            ctx |-> brandContext, sid |-> sessionId, stored |-> TRUE]
    ELSE IF Truthy(brandContext) /\ ~Truthy(sessionId)
      THEN [store |-> StoreSet(m, g, brandContext.v),
            ctx |-> brandContext, sid |-> Text(g), stored |-> TRUE]
    ELSE [store |-> m, ctx |-> brandContext, sid |-> sessionId, stored |-> FALSE]

\* a plausible slip: a session id is generated and returned, but the context
\* is not stored under it
ResolveWithoutStoring(m, brandContext, sessionId, g) ==
    IF Truthy(brandContext) /\ Truthy(sessionId)
      THEN [store |-> StoreSet(m, sessionId.s, brandContext.v),
            ctx |-> brandContext, sid |-> sessionId, stored |-> TRUE]
    ELSE IF ~Truthy(brandContext) /\ Truthy(sessionId) /\ StoreHas(m, sessionId.s)
      THEN [store |-> m, ctx |-> StoreGet(m, sessionId.s), sid |-> sessionId,
            stored |-> FALSE]
    ELSE IF Truthy(brandContext) /\ ~Truthy(sessionId)
      THEN [store |-> m, ctx |-> brandContext, sid |-> Text(g), stored |-> TRUE]
    ELSE [store |-> m, ctx |-> brandContext, sid |-> sessionId, stored |-> FALSE]

\* a plausible slip: a re-supplied context is merged into the stored record
\* (update instead of set) and the merged record is used
ResolveMerging(m, brandContext, sessionId, g) ==
    IF Truthy(brandContext) /\ Truthy(sessionId)
      THEN [store |-> StoreUpdate(m, sessionId.s, brandContext.v),
            ctx |-> StoreGet(StoreUpdate(m, sessionId.s, brandContext.v), sessionId.s),
            sid |-> sessionId, stored |-> TRUE]
    ELSE IF ~Truthy(brandContext) /\ Truthy(sessionId) /\ StoreHas(m, sessionId.s)
      THEN [store |-> m, ctx |-> StoreGet(m, sessionId.s), sid |-> sessionId,
            stored |-> FALSE]
    ELSE IF Truthy(brandContext) /\ ~Truthy(sessionId)
      THEN [store |-> StoreSet(m, g, brandContext.v),
            ctx |-> brandContext, sid |-> Text(g), stored |-> TRUE]
    ELSE [store |-> m, ctx |-> brandContext, sid |-> sessionId, stored |-> FALSE]

\* Brand context resolution (the four-way branch): the store afterwards, the
\* effective context and the effective session id, with g the id generated
\* when one is needed.
ResolveBrandContext(m, brandContext, sessionId, g) ==
    IF Truthy(brandContext) /\ Truthy(sessionId)
      THEN [store |-> StoreSet(m, sessionId.s, brandContext.v),
            ctx |-> brandContext, sid |-> sessionId, stored |-> TRUE]
    ELSE IF ~Truthy(brandContext) /\ Truthy(sessionId) /\ StoreHas(m, sessionId.s)
      THEN [store |-> m, ctx |-> StoreGet(m, sessionId.s), sid |-> sessionId,
            stored |-> FALSE]
    ELSE IF Truthy(brandContext) /\ ~Truthy(sessionId)
      THEN [store |-> StoreSet(m, g, brandContext.v),
            ctx |-> brandContext, sid |-> Text(g), stored |-> TRUE]
    ELSE [store |-> m, ctx |-> brandContext, sid |-> sessionId, stored |-> FALSE]

\* the session id a request's brand context is supplied under: the one it
\* names, else the one generated for it
SuppliedUnder(b, g) == IF Truthy(b.sessionId) THEN b.sessionId.s ELSE g

NoArgs == [called |-> FALSE, message |-> <<>>, history |-> <<>>, brandContext |-> Undefined]

SrvInit ==
    /\ contexts = EmptyMap
    /\ hpc = [r \in Slots |-> "idle"]
    /\ request = [r \in Slots |-> Undefined]
    /\ genArgs = [r \in Slots |-> NoArgs]
    /\ genState = [r \in Slots |-> "none"]
    /\ effSid = [r \in Slots |-> Undefined]
    /\ fired = [r \in Slots |-> {}]
    /\ clock = [r \in Slots |-> 0]
    /\ sent = [r \in Slots |-> <<>>]
    /\ escaped = [r \in Slots |-> FALSE]
    /\ lastSupplied = [s \in AllSessionIds |-> Undefined]
    /\ everSupplied = [s \in AllSessionIds |-> {}]

\* a plausible slip: the brand context is stored before the body is validated
ChatHandlerStoresFirst(r, b, g) ==
    /\ hpc[r] = "idle"
    /\ request' = [request EXCEPT ![r] = b]
    /\ LET v == ValidateRequest(b)
           res == ResolveBrandContext(contexts, b.brandContext, b.sessionId, g)
       IN /\ contexts' = res.store
          /\ IF v.kind = "ok"
               THEN /\ effSid' = [effSid EXCEPT ![r] = res.sid]
                    /\ genArgs' = [genArgs EXCEPT ![r] =
                           [called |-> TRUE,
                            message |-> sanitizeInput(b.message.runs),
                            history |-> IF b.history.t = "array"
                                          THEN b.history.items ELSE <<>>,
                            brandContext |-> res.ctx]]
                    /\ genState' = [genState EXCEPT ![r] = "pending"]
                    /\ hpc' = [hpc EXCEPT ![r] = "racing"]
                    /\ UNCHANGED sent
               ELSE /\ sent' = [sent EXCEPT ![r] =
                           <<IF v.kind = "reject" THEN ErrorResponse(400, v.error)
                                                  ELSE FailureResponse(v.error)>>]
                    /\ hpc' = [hpc EXCEPT ![r] = "done"]
                    /\ UNCHANGED <<genArgs, genState, effSid>>
          /\ lastSupplied' =
                 IF Truthy(b.brandContext)
                   THEN [lastSupplied EXCEPT ![SuppliedUnder(b, g)] = b.brandContext]
                   ELSE lastSupplied
          /\ everSupplied' =
                 IF Truthy(b.brandContext)
                   THEN [everSupplied EXCEPT ![SuppliedUnder(b, g)] = @ \cup {b.brandContext}]
                   ELSE everSupplied
    /\ UNCHANGED <<fired, clock, escaped, genVars, cliVars, stoVars>>

\* POST /api/chat with body b arrives in slot r: the timeout middleware, then
\* the handler up to its first await (or to its return).  g is the session id
\* generated if one is needed.
ChatHandler(r, b, g) ==
    /\ hpc[r] = "idle"
    /\ request' = [request EXCEPT ![r] = b]
    /\ LET v == ValidateRequest(b) IN
       CASE v.kind = "reject" ->
              /\ sent' = [sent EXCEPT ![r] = <<ErrorResponse(400, v.error)>>]
              /\ hpc' = [hpc EXCEPT ![r] = "done"]
              /\ UNCHANGED <<contexts, genArgs, genState, effSid, lastSupplied,
                             everSupplied>>
         [] v.kind = "throw" ->
              /\ sent' = [sent EXCEPT ![r] = <<FailureResponse(v.error)>>]
              /\ hpc' = [hpc EXCEPT ![r] = "done"]
              /\ UNCHANGED <<contexts, genArgs, genState, effSid, lastSupplied,
                             everSupplied>>
         [] v.kind = "ok" ->
              LET res == ResolveBrandContext(contexts, b.brandContext, b.sessionId, g)
              IN /\ contexts' = res.store
                 /\ effSid' = [effSid EXCEPT ![r] = res.sid]
                 /\ genArgs' = [genArgs EXCEPT ![r] =
                        [called |-> TRUE,
                         message |-> sanitizeInput(b.message.runs),
                         history |-> IF b.history.t = "array"
                                       THEN b.history.items ELSE <<>>,
                         brandContext |-> res.ctx]]
                 /\ genState' = [genState EXCEPT ![r] = "pending"]
                 /\ hpc' = [hpc EXCEPT ![r] = "racing"]
                 /\ lastSupplied' =
                        IF Truthy(b.brandContext)
                          THEN [lastSupplied EXCEPT ![SuppliedUnder(b, g)] = b.brandContext]
                          ELSE lastSupplied
                 /\ everSupplied' =
                        IF Truthy(b.brandContext)
                          THEN [everSupplied EXCEPT ![SuppliedUnder(b, g)] = @ \cup {b.brandContext}]
                          ELSE everSupplied
                 /\ UNCHANGED sent
    /\ UNCHANGED <<fired, clock, escaped, genVars, cliVars, stoVars>>

\* what generateContent can end with
GenerationErrors == {HighDemandMessage}

\* generationPromise of request r settles: resolved with the generated text
\* (ok) or rejected with message; a handler still in the race resumes.
GenerationSettles(r, ok, message) ==
    /\ genState[r] = "pending"
    /\ genState' = [genState EXCEPT ![r] = IF ok THEN "resolved" ELSE "rejected"]
    /\ IF hpc[r] = "racing"
         THEN /\ hpc' = [hpc EXCEPT ![r] = "done"]
              /\ IF ok THEN ResumeResolved(r, CompletionFor(genArgs[r].message))
                       ELSE ResumeRejected(r, message)
         ELSE UNCHANGED <<hpc, sent, escaped>>
    /\ UNCHANGED <<contexts, request, genArgs, effSid, fired, clock,
                   lastSupplied, everSupplied, genVars, cliVars, stoVars>>

\* a plausible slip: the generation timer set after the response timer
TimerDelayLate(k) ==
    IF k = "generation" THEN RESPONSE_TIMEOUT_MS + 1000 ELSE RESPONSE_TIMEOUT_MS

\* the delay a timer is set with
TimerDelay(k) ==
    IF k = "generation" THEN GENERATION_TIMEOUT_MS ELSE RESPONSE_TIMEOUT_MS

\* a plausible slip: the response timer stays set after a response was
\* written
ArmedTimersKept(r) ==
    {k \in {"generation", "response"} :
        /\ k \notin fired[r]
        /\ k = "generation" => genState[r] # "none"
        /\ k = "response" => hpc[r] # "idle"}

\* The timers of request r that can still run: the generation timer once the
\* handler has reached the race, the response timer (res.setTimeout) while no
\* response has been written.
ArmedTimers(r) ==
    {k \in {"generation", "response"} :
        /\ k \notin fired[r]
        /\ k = "generation" => genState[r] # "none"
        /\ k = "response" => (hpc[r] # "idle" /\ sent[r] = <<>>)}

\* the timers that run next: those with the least delay
NextTimers(r) ==
    {k \in ArmedTimers(r) : \A j \in ArmedTimers(r) : TimerDelay(k) <= TimerDelay(j)}

\* Time passes up to the next timer of request r and its callback runs: the
\* generation timer rejects timeoutPromise (a handler still in the race
\* resumes in its catch block), the response timer writes the 408 answer.
TimerFires(r) ==
    \E k \in NextTimers(r) :
        /\ fired' = [fired EXCEPT ![r] = @ \cup {k}]
        /\ clock' = [clock EXCEPT ![r] = TimerDelay(k)]
        /\ IF k = "generation"
             THEN IF hpc[r] = "racing"
                    THEN /\ hpc' = [hpc EXCEPT ![r] = "done"]
                         /\ ResumeRejected(r, GenerationTimeoutText)
                    ELSE UNCHANGED <<hpc, sent, escaped>>
             ELSE /\ sent' = [sent EXCEPT ![r] = <<TimeoutResponse>>]
                  /\ UNCHANGED <<hpc, escaped>>
        /\ UNCHANGED <<contexts, request, genArgs, genState, effSid,
                       lastSupplied, everSupplied, genVars, cliVars, stoVars>>

\* The exchange of slot r is over and the slot takes the next request; what
\* is still pending of the old request has no effect any more.
Recycle(r) ==
    /\ hpc[r] = "done"
    /\ hpc' = [hpc EXCEPT ![r] = "idle"]
    /\ request' = [request EXCEPT ![r] = Undefined]
    /\ genArgs' = [genArgs EXCEPT ![r] = NoArgs]
    /\ genState' = [genState EXCEPT ![r] = "none"]
    /\ effSid' = [effSid EXCEPT ![r] = Undefined]
    /\ fired' = [fired EXCEPT ![r] = {}]
    /\ clock' = [clock EXCEPT ![r] = 0]
    /\ sent' = [sent EXCEPT ![r] = <<>>]
    /\ escaped' = [escaped EXCEPT ![r] = FALSE]
    /\ UNCHANGED <<contexts, lastSupplied, everSupplied, genVars, cliVars, stoVars>>

(***************************************************************************)
(* The requests of the model.                                              *)
(***************************************************************************)
Body(message, history, brandContext, sessionId) ==
    [message |-> message, history |-> history,
     brandContext |-> brandContext, sessionId |-> sessionId]


TechCorp == Obj([f \in {"brandName"} |-> "TechCorp"])
Playful == Obj([f \in {"brandVoice"} |-> "Playful"])
\* brandContext: {}
EmptyContext == Obj([f \in {} |-> ""])

\* The requests of the concurrent specification: one valid message with
\* every brand context and session id, a second valid message, and requests
\* with an empty message.
MessageA == Str(<<(<<"a", 1>>)>>)
MessageB == Str(<<(<<"sp", 1>>), (<<"b", 1>>), (<<"nul", 2>>)>>)
ChatContexts == {Undefined, TechCorp, Playful}
ChatSessionIds ==
    {Undefined, Text("s1"), Text("session_1700000000000_k3x9q2m1z")}

\* the id generated in the concurrent specification: also one a client sends
ChatGeneratedIds == {"session_1700000000000_k3x9q2m1z"}

ChatBodies ==
    {Body(MessageA, Undefined, c, s) : c \in ChatContexts, s \in ChatSessionIds}
      \cup {Body(MessageB, Undefined, Undefined, Undefined),
            Body(Str(<<>>), Undefined, Undefined, Undefined),
            Body(Str(<<>>), Undefined, TechCorp, Text("s1")),
            Body(Str(<<>>), Undefined, Playful, Undefined)}

\* a new request takes the lowest free slot
LowestFree(r) == \A q \in Slots : q < r => hpc[q] # "idle"

SrvNext ==
    \/ \E r \in Slots, b \in ChatBodies, g \in ChatGeneratedIds :
          LowestFree(r) /\ ChatHandler(r, b, g)
    \/ \E r \in Slots : GenerationSettles(r, TRUE, "")
    \/ \E r \in Slots, m \in GenerationErrors : GenerationSettles(r, FALSE, m)
    \/ \E r \in Slots : TimerFires(r)
    \/ \E r \in Slots : Recycle(r)

(***************************************************************************)
(* The requests of the single-request specification: every shape of        *)
(* message and history the validation tells apart.                         *)
(***************************************************************************)
Repeat(x, n) == [i \in 1..n |-> x]

Entry(role, content) == [t |-> "object", role |-> role, content |-> content]

OneMessages ==
    {Undefined, Num,
     Str(<<>>),
     Str(<<(<<"sp", 3>>)>>),
     Str(<<(<<"nul", 1>>), (<<"tab", 1>>)>>),
     Str(<<(<<"a", 1>>)>>),
     Str(<<(<<"a", 1>>), (<<"sp", 2>>), (<<"nul", 1>>), (<<"b", 1>>)>>),
     Str(<<(<<"a", MAX_MESSAGE_LENGTH>>)>>),
     Str(<<(<<"a", MAX_MESSAGE_LENGTH + 1>>)>>),
     Str(<<(<<"sp", 2>>), (<<"a", MAX_MESSAGE_LENGTH>>), (<<"tab", 1>>)>>),
     Str(<<(<<"a", 2500>>), (<<"nul", 2>>), (<<"b", 2499>>)>>),
     Str(<<(<<"a", 2500>>), (<<"sp", 1>>), (<<"b", 2500>>)>>)}

UserEntry == Entry(Text("user"), Str(<<(<<"a", 2>>)>>))
SystemEntry == Entry(Text("system"), Str(<<(<<"b", 3>>)>>))

OneHistories ==
    {Undefined, Null, Text("not an array"),
     Arr(<<>>),
     Arr(<<UserEntry>>),
     Arr(<<UserEntry, SystemEntry>>),
     Arr(<<Null>>),
     Arr(<<UserEntry, Null>>),
     Arr(<<Entry(Undefined, Str(<<(<<"a", 1>>)>>))>>),
     Arr(<<Entry(Text(""), Str(<<(<<"a", 1>>)>>))>>),
     Arr(<<Entry(Text("user"), Undefined)>>),
     Arr(<<Entry(Text("user"), Str(<<>>))>>),
     Arr(<<Entry(Text("user"), Num)>>),
     Arr(<<UserEntry, Entry(Text("assistant"), Num)>>),
     Arr(Repeat(UserEntry, MAX_HISTORY_LENGTH)),
     Arr(Repeat(UserEntry, MAX_HISTORY_LENGTH + 1)),
     Arr(Repeat(Null, MAX_HISTORY_LENGTH + 1))}

OneBodies ==
    {Body(m, h, c, s) : m \in OneMessages, h \in OneHistories,
                        c \in {Undefined, TechCorp}, s \in {Undefined, Text("s1")}}

\* one request at a time, of any shape
OneNext ==
    \/ \E b \in OneBodies, g \in GeneratedSessionIds : ChatHandler(1, b, g)
    \/ GenerationSettles(1, TRUE, "")
    \/ \E m \in GenerationErrors : GenerationSettles(1, FALSE, m)
    \/ TimerFires(1)
    \/ Recycle(1)

(***************************************************************************)
(* ChatClient.sendMessage.  The recursion sendMessage(request,             *)
(* retryCount + 1) is the last thing an invocation does, so one invocation *)
(* is running at a time and retryCount is its argument.  A fetch outcome   *)
(* is a Response (its status, what response.json() yields) or a rejection. *)
(***************************************************************************)
API_TIMEOUT == 30000
ChatClientMaxRetries == 2

\* json: "object" (error is errorData.error, "" when it has none, data the
\* returned value), "null" (the body is the JSON text null), "invalid"
\* (response.json() rejects)
Response(status, json, error, data) ==
    [kind |-> "response", status |-> status, json |-> json, error |-> error,
     data |-> data, isError |-> TRUE, name |-> "", message |-> ""]

Rejection(isError, name, message) ==
    [kind |-> "reject", status |-> 0, json |-> "", error |-> "", data |-> "",
     isError |-> isError, name |-> name, message |-> message]

\* response.ok
ResponseOk(o) == o.status >= 200 /\ o.status <= 299

\* what an invocation does next: return data, throw an Error with a message,
\* or wait and call itself with retryCount + 1
ClientReturn(data) == [kind |-> "return", value |-> data, wait |-> 0]
ClientThrow(msg) == [kind |-> "throw", value |-> msg, wait |-> 0]
\* await new Promise(resolve => setTimeout(resolve, 1000 * (retryCount + 1)));
\* return this.sendMessage(request, retryCount + 1)
ClientRetry(rc) == [kind |-> "retry", value |-> "", wait |-> 1000 * (rc + 1)]

\* a plausible slip: an aborted attempt is retried like a network failure
AbortBranchRetries(rc) ==
    IF rc < ChatClientMaxRetries THEN ClientRetry(rc)
    ELSE ClientThrow("Network error. Please check your internet connection and try again.")

\* if (error.name === 'AbortError') throw new Error('Request timed out after 30 seconds...')
AbortBranch(rc) == ClientThrow("Request timed out after 30 seconds. Please try again with a simpler request.")

\* the catch block of sendMessage; error is what was thrown in the try block
ClientCatch(error, rc) ==
    IF error.isError
      THEN IF error.name = "AbortError" THEN AbortBranch(rc)
           ELSE IF Includes(error.message, "fetch")
                   \/ Includes(error.message, "Failed to fetch")
                  THEN IF rc < ChatClientMaxRetries THEN ClientRetry(rc)
                       ELSE ClientThrow("Network error. Please check your internet connection and try again.")
           ELSE ClientThrow(error.message)
      ELSE ClientThrow("An unexpected error occurred. Please try again.")

\* new Error(message) thrown inside the try block
ThrownInTry(message) == [isError |-> TRUE, name |-> "Error", message |-> message]

\* errorData.error || `Server error (${response.status})`
ErrorMessageOf(o) ==
    IF o.json = "object" /\ o.error # "" THEN o.error
    ELSE "Server error (" \o ToString(o.status) \o ")"

\* if (!response.ok) { ... }: errorData is {} when the body is no JSON, and
\* reading errorData.error throws a TypeError when the body is the JSON null
NotOkBranch(o, rc) ==
    IF o.json = "null"
      THEN ClientCatch([isError |-> TRUE, name |-> "TypeError",
                        message |-> "Cannot read properties of null (reading 'error')"], rc)
    ELSE IF o.status = 429
      THEN ClientCatch(ThrownInTry("The service is experiencing high demand. Please wait a moment and try again."), rc)
    ELSE IF o.status = 408
      THEN ClientCatch(ThrownInTry("Request timed out. The response took longer than expected. Please try again."), rc)
    ELSE IF o.status >= 500
      THEN IF rc < ChatClientMaxRetries THEN ClientRetry(rc)
           ELSE ClientCatch(ThrownInTry("The service is temporarily unavailable. Please try again in a moment."), rc)
    ELSE ClientCatch(ThrownInTry(ErrorMessageOf(o)), rc)

\* the try block from the settlement of fetch on
TryBlock(o, rc) ==
    IF o.kind = "reject"
      THEN ClientCatch([isError |-> o.isError, name |-> o.name,
                        message |-> o.message], rc)
    ELSE IF ~ResponseOk(o) THEN NotOkBranch(o, rc)
    ELSE IF o.json = "invalid"
      THEN ClientCatch([isError |-> TRUE, name |-> "SyntaxError",
                        message |-> "Unexpected token < in JSON at position 0"], rc)
    ELSE ClientReturn(o.data)

CliInit ==
    /\ cpc = "idle"
    /\ retryCount = 0
    /\ fetchCalls = 0
    /\ cwaits = <<>>
    /\ cresult = ""
    /\ fetched = <<>>
    /\ cclock = 0

\* chatClient.sendMessage(request): the first invocation up to await fetch
SendMessage ==
    /\ cpc = "idle"
    /\ cpc' = "awaitFetch"
    /\ retryCount' = 0
    /\ fetchCalls' = 1
    /\ cclock' = 0
    /\ UNCHANGED <<cwaits, cresult, fetched, boxVars, appVars, genVars, srvVars, stoVars>>

\* the running invocation resumes with fetch outcome o, t ms after the attempt
\* started, and runs to its return, its throw or its backoff wait
Resume(o, t) ==
    LET step == TryBlock(o, retryCount) IN
    /\ fetched' = Append(fetched, o)
    /\ cclock' = t
    /\ CASE step.kind = "return" ->
              /\ cpc' = "returned"
              /\ cresult' = step.value
              /\ UNCHANGED cwaits
         [] step.kind = "throw" ->
              /\ cpc' = "thrown"
              /\ cresult' = step.value
              /\ UNCHANGED cwaits
         [] step.kind = "retry" ->
              /\ cpc' = "awaitDelay"
              /\ cwaits' = Append(cwaits, step.wait)
              /\ UNCHANGED cresult
    /\ UNCHANGED <<retryCount, fetchCalls, boxVars, appVars, genVars, srvVars, stoVars>>

\* fetch settles before the abort timer is due
FetchSettles(o, t) ==
    /\ cpc = "awaitFetch"
    /\ t < API_TIMEOUT
    /\ Resume(o, t)

\* setTimeout(() => controller.abort(), API_TIMEOUT) runs while fetch is
\* pending: fetch rejects with an AbortError
AbortTimerFires ==
    /\ cpc = "awaitFetch"
    /\ Resume(Rejection(TRUE, "AbortError", "The operation was aborted."), API_TIMEOUT)

\* the backoff wait is over: sendMessage(request, retryCount + 1) up to await fetch
ClientDelayElapses ==
    /\ cpc = "awaitDelay"
    /\ cpc' = "awaitFetch"
    /\ retryCount' = retryCount + 1
    /\ fetchCalls' = fetchCalls + 1
    /\ cclock' = 0
    /\ UNCHANGED <<cwaits, cresult, fetched, boxVars, appVars, genVars, srvVars, stoVars>>

\* what the network and the server can answer a fetch with
FetchOutcomes ==
    {Response(200, "object", "", "Success after retry"), Response(200, "invalid", "", "")}
    \cup {Response(s, "object", e, "") :
             s \in {429, 408, 500, 503, 400, 404},
             e \in {"", "Invalid request format", "Could not fetch the brand profile"}}
    \cup {Response(s, j, "", "") :
             s \in {429, 408, 500, 503, 400, 404}, j \in {"null", "invalid"}}
    \cup {Rejection(TRUE, "TypeError", m) :
             m \in {"Failed to fetch", "NetworkError when attempting to fetch resource.",
                    "Load failed"}}
    \cup {Rejection(FALSE, "", "")}

ClientNext ==
    \/ SendMessage
    \/ \E o \in FetchOutcomes, t \in {1, API_TIMEOUT - 1} : FetchSettles(o, t)
    \/ AbortTimerFires
    \/ ClientDelayElapses

(***************************************************************************)
(* The InputBox component.  The text is a string in run-length form; the   *)
(* user types or pastes (onChange), clicks Send or presses a key; the      *)
(* parent sets the disabled prop.                                          *)
(***************************************************************************)
InputBoxMaxLength == 5000
MIN_MESSAGE_LENGTH == 1

\* validateInput(text): the error text, or null
validateInput(text) ==
    IF StrLength(Trim(text)) = 0 THEN Text("Message cannot be empty")
    ELSE IF StrLength(Trim(text)) < MIN_MESSAGE_LENGTH THEN Text("Message is too short")
    ELSE IF StrLength(text) > InputBoxMaxLength
      THEN Text("Message is too long (max " \o ToString(InputBoxMaxLength)
                   \o " characters)")
    ELSE Null

\* sanitized.replace(/\0/g, '')
RemoveNulls(runs) == SelectSeq(runs, LAMBDA run : run[1] # "nul")

\* InputBox's sanitizeInput(text): trim, remove the null characters, collapse
\* the whitespace runs
InputBoxSanitize(text) == CollapseWhitespace(RemoveNulls(Trim(text)))

\* input.trim().length > 0 && input.length <= MAX_MESSAGE_LENGTH
isInputValid ==
    StrLength(Trim(input)) > 0 /\ StrLength(input) <= InputBoxMaxLength

BoxInit ==
    /\ input = <<>>
    /\ validationError = Null
    /\ disabled = FALSE
    /\ onSendCalls = <<>>

\* handleInputChange(value); the textarea takes at most MAX_MESSAGE_LENGTH +
\* 100 characters and nothing while disabled
handleInputChange(value) ==
    /\ ~disabled
    /\ StrLength(value) <= InputBoxMaxLength + 100
    /\ input' = value
    /\ validationError' =
          IF StrLength(value) * 10 > InputBoxMaxLength * 9
            THEN Text(ToString(InputBoxMaxLength - StrLength(value))
                        \o " characters remaining")
          ELSE IF Truthy(validationError) THEN Null
          ELSE validationError
    /\ UNCHANGED <<disabled, onSendCalls>>

handleSend ==
    IF disabled THEN UNCHANGED boxVars
    ELSE IF Truthy(validateInput(input))
      THEN /\ validationError' = validateInput(input)
           /\ UNCHANGED <<input, disabled, onSendCalls>>
    ELSE IF StrLength(Trim(input)) = 0
      THEN /\ validationError' = Text("Message cannot be empty")
           /\ UNCHANGED <<input, disabled, onSendCalls>>
    ELSE /\ onSendCalls' = Append(onSendCalls, InputBoxSanitize(input))
         /\ input' = <<>>
         /\ validationError' = Null
         /\ UNCHANGED disabled

\* a click on the button, which is disabled when disabled || !isInputValid
ClickSend ==
    /\ ~(disabled \/ ~isInputValid)
    /\ Len(onSendCalls) < MaxSends
    /\ handleSend
    /\ UNCHANGED <<cpc, retryCount, fetchCalls, cwaits, cresult, fetched, cclock,
                   appVars, genVars, srvVars, stoVars>>

\* handleKeyPress(e) on the textarea, which takes no key while disabled
handleKeyPress(key, shiftKey) ==
    /\ ~disabled
    /\ Len(onSendCalls) < MaxSends
    /\ IF key = "Enter" /\ ~shiftKey THEN handleSend ELSE UNCHANGED boxVars
    /\ UNCHANGED <<cpc, retryCount, fetchCalls, cwaits, cresult, fetched, cclock,
                   appVars, genVars, srvVars, stoVars>>

\* the parent renders the component with another value of disabled
SetDisabled(b) ==
    /\ disabled' = b
    /\ UNCHANGED <<input, validationError, onSendCalls>>
    /\ UNCHANGED <<cpc, retryCount, fetchCalls, cwaits, cresult, fetched, cclock,
                   appVars, genVars, srvVars, stoVars>>

BoxNext ==
    \/ \E value \in {<<>>,
                      <<(<<"sp", 3>>)>>,
                      <<(<<"a", 1>>)>>,
                      <<(<<"sp", 1>>), (<<"a", 2>>), (<<"tab", 2>>), (<<"b", 1>>), (<<"sp", 1>>)>>,
                      <<(<<"nul", 1>>)>>,
                      <<(<<"sp", 1>>), (<<"nul", 2>>), (<<"tab", 1>>)>>,
                      <<(<<"nul", 1>>), (<<"sp", 1>>), (<<"nul", 1>>)>>,
                      <<(<<"a", 1>>), (<<"nul", 1>>), (<<"b", 1>>)>>,
                      <<(<<"a", InputBoxMaxLength>>)>>,
                      <<(<<"a", InputBoxMaxLength + 1>>)>>,
                      <<(<<"sp", InputBoxMaxLength + 1>>)>>} :
          /\ handleInputChange(value)
          /\ UNCHANGED <<cpc, retryCount, fetchCalls, cwaits, cresult, fetched,
                         cclock, appVars, genVars, srvVars, stoVars>>
    \/ ClickSend
    \/ \E key \in {"Enter", "a"}, shiftKey \in BOOLEAN : handleKeyPress(key, shiftKey)
    \/ \E b \in BOOLEAN : SetDisabled(b)

(***************************************************************************)
(* The App component.  A message of the conversation list is its role and  *)
(* its content (ids and timestamps come from Date.now() and are not        *)
(* modelled, nor is the brand context extracted from the list).  A handler *)
(* reads the state of the render it was created in: the messages that      *)
(* handleSend passes as history are those of the list as rendered when the *)
(* event began, while the updaters given to setMessages apply in order to  *)
(* the latest list.  An outcome of chatClient.sendMessage is the resolved   *)
(* response or the rejection's Error.                                      *)
(***************************************************************************)
\* { id, role: 'user', content: message, timestamp }
UserMessage(message) == [role |-> "user", content |-> message]

\* { id, role: 'assistant', content, timestamp }
AssistantMessage(content) == [role |-> "assistant", content |-> content]

AppInit ==
    /\ appMessages = <<>>
    /\ isLoading = FALSE
    /\ appError = Null
    /\ lastFailedMessage = Null
    /\ sendMessageCalls = <<>>

\* handleSend(message) up to its await, called through via; prev is the list
\* that the updater appending the user message is applied to
AppHandleSend(message, prev, via) ==
    /\ appError' = Null
    /\ lastFailedMessage' = Null
    /\ appMessages' = Append(prev, UserMessage(message))
    /\ isLoading' = TRUE
    /\ sendMessageCalls' =
          Append(sendMessageCalls,
                 [message |-> message, history |-> appMessages, via |-> via])

\* a click on an example prompt of the welcome screen, shown while the list
\* is empty
ExampleClick(prompt) ==
    /\ Len(appMessages) = 0
    /\ ~isLoading
    /\ Len(sendMessageCalls) < MaxAppSends
    /\ AppHandleSend(prompt, appMessages, "example")
    /\ UNCHANGED <<cpc, retryCount, fetchCalls, cwaits, cresult, fetched, cclock,
                   boxVars, genVars, srvVars, stoVars>>

\* onSend of the InputBox of the chat interface, which is disabled while
\* isLoading
OnSend(message) ==
    /\ Len(appMessages) > 0
    /\ ~isLoading
    /\ Len(sendMessageCalls) < MaxAppSends
    /\ AppHandleSend(message, appMessages, "send")
    /\ UNCHANGED <<cpc, retryCount, fetchCalls, cwaits, cresult, fetched, cclock,
                   boxVars, genVars, srvVars, stoVars>>

\* a click on Retry, shown with the error banner while lastFailedMessage is
\* set and disabled while isLoading: setMessages(prev => prev.slice(0, -1)),
\* then handleSend(lastFailedMessage)
handleRetry ==
    /\ Truthy(appError)
    /\ Truthy(lastFailedMessage)
    /\ ~isLoading
    /\ Len(sendMessageCalls) < MaxAppSends
    /\ AppHandleSend(lastFailedMessage.s,
                     SubSeq(appMessages, 1, Len(appMessages) - 1), "retry")
    /\ UNCHANGED <<cpc, retryCount, fetchCalls, cwaits, cresult, fetched, cclock,
                   boxVars, genVars, srvVars, stoVars>>

\* chatClient.sendMessage settles and handleSend resumes: the assistant
\* message on success, else the catch block; then finally
SendMessageSettles(o) ==
    /\ isLoading
    /\ IF o.kind = "resolved" /\ o.success
         THEN /\ appMessages' = Append(appMessages, AssistantMessage(o.response))
              /\ UNCHANGED <<appError, lastFailedMessage>>
         ELSE LET errorMsg ==
                    IF o.kind = "rejected" THEN o.error
                    ELSE IF o.error # "" THEN o.error
                    ELSE "Failed to get response"
              IN /\ appError' = Text(errorMsg)
                 /\ lastFailedMessage' =
                       Text(sendMessageCalls[Len(sendMessageCalls)].message)
                 /\ appMessages' =
                       Append(appMessages,
                              AssistantMessage("Sorry, I encountered an error: "
                                                 \o errorMsg))
    /\ isLoading' = FALSE
    /\ UNCHANGED sendMessageCalls
    /\ UNCHANGED <<cpc, retryCount, fetchCalls, cwaits, cresult, fetched, cclock,
                   boxVars, genVars, srvVars, stoVars>>

AppNext ==
    \/ \E prompt \in {"Write a tagline", "Plan a launch"} : ExampleClick(prompt)
    \/ \E message \in {"Write a tagline", "Make it shorter"} : OnSend(message)
    \/ handleRetry
    \/ \E o \in {[kind |-> "resolved", success |-> TRUE, response |-> "Success!",
                    error |-> ""],
                   [kind |-> "resolved", success |-> FALSE, response |-> "",
                    error |-> "API rate limit exceeded"],
                   [kind |-> "resolved", success |-> FALSE, response |-> "",
                    error |-> ""],
                   [kind |-> "rejected", success |-> FALSE, response |-> "",
                    error |-> "Network error"]} :
          SendMessageSettles(o)

(***************************************************************************)
(* A caller of BrandContextStore: it builds context objects, hands them to *)
(* set and update, keeps what get returns and assigns to the fields of the *)
(* objects it holds.  A held object is its fields and the id of the stored *)
(* record it is the same object as (NoAlias: an object of its own).  A     *)
(* field whose value is undefined holds UndefinedField.                    *)
(***************************************************************************)
NoAlias == ""
UndefinedField == "(undefined)"

\* a plausible slip: set keeps the caller's object instead of a copy
SetStoresReference(obj, id) == [obj EXCEPT !.alias = id]

\* set: this.contexts.set(sessionId, { ...context }) stores a new object, so
\* the caller's object stays what it was
SetStoresCopy(obj, id) == obj

\* a plausible slip: get returns the stored object itself
GetReturnsReference(m, id) == [value |-> m[id], alias |-> id]

\* get: return context ? { ...context } : undefined, for a stored id
GetReturnsCopy(m, id) == [value |-> m[id], alias |-> NoAlias]

\* the held objects once the record under id is another object: none of them
\* is that record any more
Detach(h, id) ==
    [i \in DOMAIN h |-> IF h[i].alias = id THEN [h[i] EXCEPT !.alias = NoAlias] ELSE h[i]]

\* a plausible slip: delete reports success whether or not a record existed
DeleteReturnsTrue(m, id) == TRUE

\* this.contexts.delete(sessionId): what it returns
DeleteReturns(m, id) == id \in DOMAIN m

\* this.contexts.clear(): the map afterwards
StoreClear(m) == EmptyMap

\* obj.field = value
Assign(ctx, field, value) ==
    [f \in (DOMAIN ctx) \cup {field} |-> IF f = field THEN value ELSE ctx[f]]

Op(op, id, arg, got, flag) ==
    [op |-> op, id |-> id, arg |-> arg, got |-> got, flag |-> flag]

StoInit ==
    /\ held = <<>>
    /\ lastOp = Op("none", "", <<>>, Undefined, FALSE)
    /\ live = {}

StoreFrame ==
    UNCHANGED <<hpc, request, genArgs, genState, effSid, fired, clock, sent,
                escaped, lastSupplied, everSupplied, genVars, cliVars>>

\* const ctx = { ... }: the caller builds a context object
CallerCreates(c) ==
    /\ Len(held) < MaxHeld
    /\ held' = Append(held, [value |-> c, alias |-> NoAlias])
    /\ lastOp' = Op("none", "", <<>>, Undefined, FALSE)
    /\ UNCHANGED <<contexts, live>>
    /\ StoreFrame

\* the caller lets go of the object it has held longest
CallerDrops ==
    /\ held # <<>>
    /\ held' = Tail(held)
    /\ lastOp' = Op("none", "", <<>>, Undefined, FALSE)
    /\ UNCHANGED <<contexts, live>>
    /\ StoreFrame

\* store.set(id, held[i])
SetOp(id, i) ==
    /\ i \in DOMAIN held
    /\ contexts' = StoreSet(contexts, id, held[i].value)
    /\ held' = [Detach(held, id) EXCEPT ![i] = SetStoresCopy(held[i], id)]
    /\ lastOp' = Op("set", id, held[i].value, Undefined, FALSE)
    /\ live' = live \cup {id}
    /\ StoreFrame

\* store.get(id); the caller keeps the returned object or not
GetOp(id, keep) ==
    /\ keep => (StoreHas(contexts, id) /\ Len(held) < MaxHeld)
    /\ held' = IF keep THEN Append(held, GetReturnsCopy(contexts, id)) ELSE held
    /\ lastOp' = Op("get", id, <<>>, StoreGet(contexts, id), FALSE)
    /\ UNCHANGED <<contexts, live>>
    /\ StoreFrame

\* store.update(id, partial) with an object literal
UpdateOp(id, partial) ==
    /\ contexts' = StoreUpdate(contexts, id, partial)
    /\ held' = Detach(held, id)
    /\ lastOp' = Op("update", id, partial, Undefined, FALSE)
    /\ live' = live \cup {id}
    /\ StoreFrame

\* store.delete(id)
DeleteOp(id) ==
    /\ contexts' = StoreDelete(contexts, id)
    /\ held' = Detach(held, id)
    /\ lastOp' = Op("delete", id, <<>>, Undefined, DeleteReturns(contexts, id))
    /\ live' = live \ {id}
    /\ StoreFrame

\* store.clear()
ClearOp ==
    /\ contexts' = StoreClear(contexts)
    /\ held' = [i \in DOMAIN held |-> [held[i] EXCEPT !.alias = NoAlias]]
    /\ lastOp' = Op("clear", "", <<>>, Undefined, FALSE)
    /\ live' = {}
    /\ StoreFrame

\* held[i].field = value: the object changes, and with it every reference to
\* the same object
Mutate(i, field, value) ==
    /\ i \in DOMAIN held
    /\ held' = [j \in DOMAIN held |->
                  IF j = i \/ (held[i].alias # NoAlias /\ held[j].alias = held[i].alias)
                    THEN [held[j] EXCEPT !.value = Assign(@, field, value)]
                    ELSE held[j]]
    /\ contexts' = IF held[i].alias \in DOMAIN contexts
                     THEN [contexts EXCEPT ![held[i].alias] = Assign(@, field, value)]
                     ELSE contexts
    /\ lastOp' = Op("mutate", "", <<>>, Undefined, FALSE)
    /\ UNCHANGED live
    /\ StoreFrame

StoreIds == {"s1", "s2"}
CallerContexts ==
    {[f \in {"brandName"} |-> "TechCorp"],
     [f \in {"brandName", "brandVoice"} |->
         IF f = "brandName" THEN "TechCorp" ELSE "Professional"]}
Partials ==
    {[f \in {"brandVoice"} |-> "Casual"],
     [f \in {"brandName"} |-> UndefinedField],
     [f \in {"brandName", "industry"} |->
         IF f = "brandName" THEN UndefinedField ELSE "Technology"]}

StoreNext ==
    \/ \E c \in CallerContexts : CallerCreates(c)
    \/ CallerDrops
    \/ \E id \in StoreIds, i \in 1..MaxHeld : SetOp(id, i)
    \/ \E id \in StoreIds, keep \in BOOLEAN : GetOp(id, keep)
    \/ \E id \in StoreIds, p \in Partials : UpdateOp(id, p)
    \/ \E id \in StoreIds : DeleteOp(id)
    \/ ClearOp
    \/ \E i \in 1..MaxHeld : Mutate(i, "brandName", "Modified")

\* one request at a time, with every kind of brand context (none, two with
\* different fields, the empty object) and of session id (none, the empty
\* string, a name)
ContextBodies ==
    {Body(MessageA, Undefined, c, s) :
        c \in {Undefined, TechCorp, Playful, EmptyContext},
        s \in {Undefined, Text(""), Text("s1")}}

ContextNext ==
    \/ \E b \in ContextBodies, g \in ChatGeneratedIds : ChatHandler(1, b, g)
    \/ GenerationSettles(1, TRUE, "")
    \/ \E m \in GenerationErrors : GenerationSettles(1, FALSE, m)
    \/ TimerFires(1)
    \/ Recycle(1)

\* one call of generateContent for every kind of user message, with and
\* without a brand context
PromptsNext ==
    \/ \E m \in {"Write a BLOG post", "An article for LinkedIn",
                  "Post on Twitter", "Fix my text", "Instagram email",
                  "Email for my launch", "email ad", "Write an ad",
                  "Brand advice", "campaign strategy for spring",
                  "Marketing Strategy plan", "Lead campaign strategy",
                  "campaign idea", "Campaign concept for fall",
                  "campaign strategy and campaign idea",
                  "Tell me a joke", "campaign", ""},
          c \in {Undefined, TechCorp}, mr \in 0..MaxRetriesBound :
          GenerateContent(m, <<>>, c, mr)
    \/ \E o \in {Completion("Generated copy"), UpstreamError(429, "Service down")} :
          UpstreamSettles(o)
    \/ DelayElapses

Init == GenInit /\ SrvInit /\ CliInit /\ BoxInit /\ AppInit /\ StoInit

\* one call of generateContent against an arbitrary upstream
SpecGen == Init /\ [][GenNext]_vars

\* the same, where every awaited timer fires and every upstream call settles
SpecGenFair ==
    /\ SpecGen
    /\ WF_vars(DelayElapses)
    /\ WF_vars(\E o \in UpstreamOutcomes : UpstreamSettles(o))

\* one call of generateContent with a conversation history
SpecMessages == Init /\ [][MessagesNext]_vars

\* the InputBox component under an arbitrary user and parent
SpecInputBox == Init /\ [][BoxNext]_vars

\* the App component over a chat client with arbitrary outcomes
SpecApp == Init /\ [][AppNext]_vars

\* one call of generateContent for every kind of user message
SpecPrompts == Init /\ [][PromptsNext]_vars

\* the server under concurrent chat requests
Spec == Init /\ [][SrvNext]_vars

\* the server handling one chat request at a time
SpecOne == Init /\ [][OneNext]_vars

\* the same, with the event loop running every timer callback that is due
SpecOneFair == SpecOne /\ WF_vars(TimerFires(1))

\* one call of ChatClient.sendMessage against an arbitrary network and server
SpecClient == Init /\ [][ClientNext]_vars

\* the server handling one request at a time, brand contexts of every kind
SpecContexts == Init /\ [][ContextNext]_vars

\* the session store under an arbitrary caller
SpecStore == Init /\ [][StoreNext]_vars

(***************************************************************************)
(* Vocabulary of the claims about generateContent.                         *)
(***************************************************************************)
\* The failure class of an upstream outcome, in the order of the design's
\* classification: the status decides first, the error text after it.
FailureClass(o) ==
    IF o.kind = "completion"
      THEN (IF o.text # "" THEN "success" ELSE "other")
    ELSE IF o.status = 429 THEN "rateLimit"
    ELSE IF o.status = 401 THEN "auth"
    ELSE IF o.status = 400 THEN "invalidRequest"
    ELSE IF o.status >= 500 THEN "server"
    ELSE IF Includes(o.text, "fetch") \/ Includes(o.text, "network") THEN "network"
    ELSE "other"

\* The text of the error an outcome raises inside the loop.
FailureText(o) == IF o.kind = "error" THEN o.text ELSE "No response from OpenAI"

\* 1 s, 2 s, 4 s, ... after failed attempts 0 .. n-1
ExponentialBackoff(n) == [k \in 1..n |-> (2 ^ (k - 1)) * 1000]

RECURSIVE SumSeq(_)
SumSeq(s) == IF s = <<>> THEN 0 ELSE Head(s) + SumSeq(Tail(s))

AllOfClass(cls) ==
    \A i \in 1..Len(outcomes) : FailureClass(outcomes[i]) = cls

\* C2: when the first n upstream calls fail with 429 (n < maxRetries) and call
\* n+1 returns non-empty content, generateContent has returned that content
\* after exactly n+1 upstream calls, and its waits are exactly 1 s, 2 s, 4 s,
\* ... (2^k s after failed attempt k), 2^n - 1 seconds in all.
C2_RateLimitThenSuccess ==
    \A n \in 0..(MaxRetriesBound + 1) :
        ( /\ n < maxRetries
          /\ Len(outcomes) = n + 1
          /\ \A i \in 1..n : FailureClass(outcomes[i]) = "rateLimit"
          /\ FailureClass(outcomes[n + 1]) = "success" )
        => /\ gpc = "returned"
           /\ gresult = outcomes[n + 1].text
           /\ calls = n + 1
           /\ waits = ExponentialBackoff(n)
           /\ SumSeq(waits) = ((2 ^ n) - 1) * 1000

C2_Witness ==
    /\ gpc = "returned"
    /\ Len(outcomes) = 3
    /\ FailureClass(outcomes[1]) = "rateLimit"
    /\ FailureClass(outcomes[2]) = "rateLimit"
    /\ waits = <<1000, 2000>>

\* C3: an upstream failure with status 401 (400) on any attempt is the last
\* thing generateContent sees: it has thrown the authentication-failure
\* (invalid-request) message, issued no further upstream call and started no
\* delay after that attempt.
C3_NoRetryOnAuthOrInvalid ==
    \A i \in 1..Len(outcomes) :
        FailureClass(outcomes[i]) \in {"auth", "invalidRequest"}
        => /\ i = Len(outcomes)
           /\ gpc = "thrown"
           /\ gresult = (IF FailureClass(outcomes[i]) = "auth"
                           THEN "API authentication failed. Please check your OpenAI API key."
                           ELSE "Invalid request to OpenAI API. Please try rephrasing your message.")
           /\ calls = i
           /\ Len(waits) = i - 1

C3_Witness ==
    /\ Len(outcomes) = 2
    /\ FailureClass(outcomes[1]) = "server"
    /\ FailureClass(outcomes[2]) = "auth"
    /\ gpc = "thrown"

\* The message the design names for the exhaustion of a retryable class.
ExhaustionMessage(cls, o) ==
    CASE cls = "rateLimit" ->
           "The service is experiencing high demand. Please wait a moment and try again."
      [] cls = "server" ->
           "OpenAI service is temporarily unavailable. Please try again in a moment."
      [] cls = "network" ->
           "Network connection error. Please check your internet connection and try again."
      [] cls = "other" ->
           "Unable to generate content: " \o FailureText(o) \o ". Please try again."

\* C4: when all maxRetries attempts have failed with one and the same
\* retryable class, exactly maxRetries upstream calls were made, no further
\* one is issued, and the error raised is that class's message.
C4_ExhaustionByOneClass ==
    \A cls \in {"rateLimit", "server", "network", "other"} :
        ( /\ maxRetries >= 1
          /\ Len(outcomes) = maxRetries
          /\ AllOfClass(cls) )
        => /\ calls = maxRetries
           /\ gpc \in {"thrown", "awaitDelay"}
           /\ gpc = "awaitDelay" => cls = "rateLimit"
           /\ gpc = "thrown" => gresult = ExhaustionMessage(cls, outcomes[maxRetries])

C4_Witness ==
    /\ maxRetries = 3
    /\ Len(outcomes) = 3
    /\ AllOfClass("network")
    /\ gpc = "thrown"

\* C5: when maxRetries attempts have failed and the last error belongs to no
\* specific class, generateContent fails with the generic message carrying the
\* last error's text, whatever the classes of the earlier errors were.
C5_GenericAfterAnyEarlierClass ==
    ( /\ gpc = "thrown"
      /\ maxRetries >= 1
      /\ Len(outcomes) = maxRetries
      /\ FailureClass(outcomes[maxRetries]) = "other" )
    => gresult = "Unable to generate content: "
                    \o FailureText(outcomes[maxRetries]) \o ". Please try again."

(***************************************************************************)
(* Vocabulary of the claims about the chat endpoint.                       *)
(***************************************************************************)
\* request r has just been taken up by the handler in this step
Arrives(r) == hpc[r] = "idle" /\ hpc'[r] # "idle"

\* a body that passes every validation check
IsValid(b) == ValidateRequest(b).kind = "ok"

\* a body that names a session and brings no brand context
LoadsFromSession(b) == ~Truthy(b.brandContext) /\ Truthy(b.sessionId)

\* C1: persistence round-trip.  A valid request that names session s and
\* brings no brand context calls generation with the context most recently
\* supplied under s by an earlier valid request (supplied with s, or with no
\* id when s is the id the server assigned to it), whenever there is one.
C1_PersistenceRoundTrip ==
    [][\A r \in Slots :
         ( /\ Arrives(r)
           /\ IsValid(request'[r])
           /\ LoadsFromSession(request'[r])
           /\ lastSupplied[request'[r].sessionId.s] # Undefined )
         => /\ genArgs'[r].called
            /\ genArgs'[r].brandContext
                  = lastSupplied[request'[r].sessionId.s]]_vars

\* two payloads were sent under s1 and a later request without one got the
\* second
C1_Witness ==
    \E r \in Slots :
        /\ hpc[r] = "racing"
        /\ request[r].sessionId = Text("s1")
        /\ request[r].brandContext = Undefined
        /\ everSupplied["s1"] = {TechCorp, Playful}
        /\ lastSupplied["s1"] = Playful
        /\ genArgs[r].brandContext = Playful

\* C6: generation deadline.  When the generation timer runs while generation
\* is still pending, it is 29 s after the request arrived and the request is
\* answered at that moment with 500, success false and the text "Failed to
\* generate response: Generation timeout"; the 30 s response timer has not run
\* and never answers 408.
C6_GenerationDeadline ==
    [][\A r \in Slots :
         /\ ( /\ "generation" \in fired'[r] \ fired[r]
              /\ genState[r] = "pending" )
            => /\ clock'[r] = 29000
               /\ sent'[r] = <<[status |-> 500, success |-> FALSE,
                               response |-> Undefined,
                               error |-> Text("Failed to generate response: Generation timeout"),
                               sessionId |-> Undefined]>>
               /\ "response" \notin fired'[r]
         /\ "response" \notin fired'[r]
         /\ (sent'[r] # <<>> => sent'[r][1].status # 408)]_vars

C6_Witness ==
    /\ genState[1] = "pending"
    /\ fired[1] = {"generation"}
    /\ clock[1] = 29000
    /\ Len(sent[1]) = 1
    /\ sent[1][1].status = 500
    /\ sent[1][1].error = Text("Failed to generate response: Generation timeout")

\* C7: every chat request, whatever its body and whatever generation does,
\* is eventually answered, and no exception ever leaves the handler uncaught.
C7_AlwaysAnswered ==
    /\ \A r \in Slots : (hpc[r] # "idle") ~> (sent[r] # <<>>)
    /\ [](\A r \in Slots : ~escaped[r])

\* a request whose generation never settled has been answered
C7_Witness ==
    /\ hpc[1] = "done"
    /\ genState[1] = "pending"
    /\ sent[1] # <<>>
    /\ ~escaped[1]

\* The first constraint of the documented order that a body violates, 0 if
\* none: (1) message is a string, (2) sanitized message non-empty,
\* (3) sanitized length <= 5000, (4) history, if present, is an array,
\* (5) history length <= 50, (6) every entry has a role and a string content.
EntryWellFormed(e) ==
    /\ e.t = "object"
    /\ Truthy(e.role)
    /\ IsString(e.content)

FirstViolation(b) ==
    IF ~IsString(b.message) THEN 1
    ELSE IF StrLength(sanitizeInput(b.message.runs)) = 0 THEN 2
    ELSE IF StrLength(sanitizeInput(b.message.runs)) > 5000 THEN 3
    ELSE IF b.history.t \notin {"undefined", "array"} THEN 4
    ELSE IF b.history.t = "array" /\ Len(b.history.items) > 50 THEN 5
    ELSE IF b.history.t = "array"
            /\ \E i \in 1..Len(b.history.items) : ~EntryWellFormed(b.history.items[i])
      THEN 6
    ELSE 0

ViolationText(n) ==
    CASE n = 1 -> "Invalid request: message is required and must be a string"
      [] n = 2 -> "Invalid request: message cannot be empty"
      [] n = 3 -> "Invalid request: message exceeds maximum length of 5000 characters"
      [] n = 4 -> "Invalid request: history must be an array"
      [] n = 5 -> "Invalid request: history exceeds maximum length of 50 messages"
      [] n = 6 -> "Invalid request: history messages must have role and content"

\* C8: validation order.  A request that violates a validation constraint is
\* answered with 400 and the error of the first constraint it violates.
C8_ValidationOrder ==
    \A r \in Slots :
        (hpc[r] # "idle" /\ FirstViolation(request[r]) # 0)
        => /\ sent[r] # <<>>
           /\ sent[r][1].status = 400
           /\ sent[r][1].success = FALSE
           /\ sent[r][1].error = Text(ViolationText(FirstViolation(request[r])))

\* C9: concurrent requests.  Whenever the generation of a request still in
\* the race resolves, that request is answered at once with 200, success true
\* and the text generated for its own sanitized message, and the answers of
\* the other requests in flight are left as they are.
C9_OwnResponse ==
    [][\A r \in Slots :
         ( /\ genState[r] = "pending"
           /\ genState'[r] = "resolved"
           /\ hpc[r] = "racing" )
         => /\ Len(sent'[r]) = 1
            /\ sent'[r][1].status = 200
            /\ sent'[r][1].success = TRUE
            /\ sent'[r][1].response
                 = [t |-> "completion", of |-> sanitizeInput(request[r].message.runs)]
            /\ \A q \in Slots \ {r} : sent'[q] = sent[q]]_vars

\* two requests with different messages were in flight together and each got
\* the text generated for its own message
C9_Witness ==
    /\ hpc[1] = "done" /\ hpc[2] = "done"
    /\ request[1].message # request[2].message
    /\ Len(sent[1]) = 1 /\ Len(sent[2]) = 1
    /\ sent[1][1].status = 200 /\ sent[2][1].status = 200
    /\ sent[1][1].response = CompletionFor(genArgs[1].message)
    /\ sent[2][1].response = CompletionFor(genArgs[2].message)
    /\ sent[1][1].response # sent[2][1].response

\* C10: atomic visibility.  Every record in the store is exactly one whole
\* context that a request supplied under that id, and so is every context a
\* request has loaded from the store, whatever other requests wrote since.
C10_WholeRecords ==
    /\ \A s \in DOMAIN contexts : Obj(contexts[s]) \in everSupplied[s]
    /\ \A r \in Slots :
         ( /\ genArgs[r].called
           /\ LoadsFromSession(request[r])
           /\ genArgs[r].brandContext # Undefined )
         => genArgs[r].brandContext \in everSupplied[request[r].sessionId.s]

\* a request loaded a context of a session that two requests wrote
C10_Witness ==
    \E r \in Slots :
        /\ genArgs[r].called
        /\ LoadsFromSession(request[r])
        /\ genArgs[r].brandContext = TechCorp
        /\ everSupplied[request[r].sessionId.s] = {TechCorp, Playful}
        /\ \E q \in Slots \ {r} : hpc[q] = "racing"

(***************************************************************************)
(* Vocabulary of the claims about ChatClient.sendMessage.                  *)
(***************************************************************************)
\* the classes of fetch outcomes the claims speak of
IsServerError(o) == o.kind = "response" /\ o.status >= 500
IsNetworkFailure(o) ==
    o.kind = "reject" /\ o.isError /\ o.name # "AbortError" /\ Includes(o.message, "fetch")
IsSuccess(o) == o.kind = "response" /\ ResponseOk(o) /\ o.json = "object"
IsOtherFailure(o) ==
    o.kind = "response" /\ ~ResponseOk(o) /\ o.status \notin {429, 408} /\ o.status < 500
SuppliesErrorText(o) == o.json = "object" /\ o.error # ""
LastFetched == fetched[Len(fetched)]

\* C11: client retry budget.  At most 3 fetch calls are issued; the wait
\* before retry r is 1000 * r ms; an attempt before the third that fails with
\* HTTP >= 500 or with a network failure is retried; a third attempt that
\* fails with HTTP >= 500 ends in the 'temporarily unavailable' error, one
\* that fails with a network failure in the connectivity error; a success on
\* any attempt is returned at once.
C11_ClientRetryBudget ==
    /\ fetchCalls <= 3
    /\ cwaits = [r \in 1..Len(cwaits) |-> 1000 * r]
    /\ fetched # <<>> =>
         /\ (Len(fetched) < 3 /\ (IsServerError(LastFetched) \/ IsNetworkFailure(LastFetched)))
              => /\ cpc \in {"awaitDelay", "awaitFetch"}
                 /\ Len(cwaits) = Len(fetched)
         /\ (Len(fetched) = 3 /\ IsServerError(LastFetched))
              => (cpc = "thrown" /\ cresult = "The service is temporarily unavailable. Please try again in a moment.")
         /\ (Len(fetched) = 3 /\ IsNetworkFailure(LastFetched))
              => (cpc = "thrown" /\ cresult = "Network error. Please check your internet connection and try again.")
         /\ IsSuccess(LastFetched)
              => (cpc = "returned" /\ cresult = LastFetched.data)

\* C12: client terminal statuses.  An attempt that receives HTTP 429 (408)
\* is the last one: sendMessage has thrown the high-demand (request timed
\* out) error and no fetch call was issued after it.
C12_ClientTerminalStatuses ==
    \A i \in 1..Len(fetched) :
        (fetched[i].kind = "response" /\ fetched[i].status \in {429, 408})
        => /\ i = Len(fetched)
           /\ fetchCalls = i
           /\ cpc = "thrown"
           /\ cresult = IF fetched[i].status = 429 THEN "The service is experiencing high demand. Please wait a moment and try again."
                        ELSE "Request timed out. The response took longer than expected. Please try again."

\* C13: client per-attempt timeout.  When an attempt is still in flight
\* 30 s after it started, sendMessage throws the timeout-specific error at
\* that moment, and no fetch call is issued afterwards, whatever retry budget
\* remains.
C13_ClientAttemptTimeout ==
    [][/\ (cpc = "awaitFetch" /\ cclock' = API_TIMEOUT)
          => /\ cpc' = "thrown"
             /\ cresult' = "Request timed out after 30 seconds. Please try again with a simpler request."
             /\ fetchCalls' = fetchCalls
       /\ (cpc = "thrown" /\ cresult = "Request timed out after 30 seconds. Please try again with a simpler request.")
          => (cpc' = "thrown" /\ fetchCalls' = fetchCalls)
       /\ (cpc = "awaitFetch" /\ cpc' # "awaitFetch") => cclock' <= API_TIMEOUT]_vars

\* the second attempt, after a retried failure, ran into its timeout
C13_Witness ==
    /\ cpc = "thrown"
    /\ cresult = "Request timed out after 30 seconds. Please try again with a simpler request."
    /\ fetchCalls = 2
    /\ retryCount = 1
    /\ cclock = API_TIMEOUT

\* C14: client other failures.  An attempt that receives a non-OK response
\* with a status below 500 other than 429 and 408 is the last one:
\* sendMessage has thrown an error whose message is the error text of the
\* response body, or 'Server error (<status>)' when the body supplies none.
C14_ClientOtherFailures ==
    \A i \in 1..Len(fetched) :
        IsOtherFailure(fetched[i])
        => /\ i = Len(fetched)
           /\ fetchCalls = i
           /\ cpc = "thrown"
           /\ cresult = IF SuppliesErrorText(fetched[i]) THEN fetched[i].error
                        ELSE "Server error (" \o ToString(fetched[i].status) \o ")"


(***************************************************************************)
(* Vocabulary of the claims about sessions and brand contexts.             *)
(***************************************************************************)
\* session_<epoch-ms>_<random>: "session_", decimal digits, "_", base-36 digits
IsGeneratedForm(id) ==
    LET digits == {"0", "1", "2", "3", "4", "5", "6", "7", "8", "9"}
        letters == {"a", "b", "c", "d", "e", "f", "g", "h", "i", "j", "k", "l", "m",
                    "n", "o", "p", "q", "r", "s", "t", "u", "v", "w", "x", "y", "z"}
    IN \E k \in 10..Len(id) :
          /\ SubSeq(id, 1, 8) = "session_"
          /\ SubSeq(id, k, k) = "_"
          /\ \A i \in 9..(k - 1) : SubSeq(id, i, i) \in digits
          /\ \A i \in (k + 1)..Len(id) : SubSeq(id, i, i) \in digits \cup letters

\* a valid body with a brand context and no session id
CreatesSession(b) == IsValid(b) /\ Truthy(b.brandContext) /\ ~Truthy(b.sessionId)

\* request r is answered with 200 in this step
Answered200(r) == sent[r] = <<>> /\ sent'[r] # <<>> /\ sent'[r][1].status = 200

\* C15: server-generated session.  A valid request with a brand context c and
\* no session id is given a session id of the form session_<epoch-ms>_<random>
\* under which c is stored at once; when its generation succeeds it is
\* answered 200 with that id, and a lookup of the id then returns the context
\* last supplied under it (c, unless a later request supplied another one
\* under the same id).
C15_GeneratedSession ==
    [][\A r \in Slots :
         /\ (Arrives(r) /\ CreatesSession(request'[r]))
            => /\ effSid'[r].t = "text"
               /\ IsGeneratedForm(effSid'[r].s)
               /\ StoreGet(contexts', effSid'[r].s) = request'[r].brandContext
         /\ (hpc[r] = "racing" /\ genState[r] = "pending" /\ genState'[r] = "resolved"
               /\ CreatesSession(request[r]))
            => Answered200(r)
         /\ (Answered200(r) /\ CreatesSession(request[r]))
            => /\ sent'[r][1].sessionId = effSid[r]
               /\ IsGeneratedForm(sent'[r][1].sessionId.s)
               /\ StoreGet(contexts', effSid[r].s) = lastSupplied'[effSid[r].s]
               /\ (everSupplied'[effSid[r].s] = {request[r].brandContext}
                     => StoreGet(contexts', effSid[r].s) = request[r].brandContext)]_vars

\* a request with {brandName: "TechCorp"} and no session id was answered 200
\* with a generated id under which exactly that context is stored
C15_Witness ==
    \E r \in Slots :
        /\ hpc[r] = "done"
        /\ request[r].brandContext = TechCorp
        /\ request[r].sessionId = Undefined
        /\ Len(sent[r]) = 1
        /\ sent[r][1].status = 200
        /\ sent[r][1].sessionId = Text("session_1700000000000_k3x9q2m1z")
        /\ StoreGet(contexts, "session_1700000000000_k3x9q2m1z") = TechCorp

\* C16 as stated: a request that supplies the brand context {} is handled as
\* one that supplies none: with a session id known to the store the stored
\* context is used for generation and the store is left as it is; with no
\* session id no session is created.
C16_EmptyContextIsNone ==
    [][\A r \in Slots :
         (Arrives(r) /\ IsValid(request'[r]) /\ request'[r].brandContext = EmptyContext)
         => /\ contexts' = contexts
            /\ (Truthy(request'[r].sessionId) /\ StoreHas(contexts, request'[r].sessionId.s))
                  => genArgs'[r].brandContext = StoreGet(contexts, request'[r].sessionId.s)
            /\ ~Truthy(request'[r].sessionId) => effSid'[r] = request'[r].sessionId]_vars

\* C16 amended: a request that supplies the brand context {} is handled as
\* one that supplies a context: with a session id the record stored under it
\* is replaced by {} and {} is used for generation; with no session id a
\* session is created that holds {}.
C16_EmptyContextIsSupplied ==
    [][\A r \in Slots :
         (Arrives(r) /\ IsValid(request'[r]) /\ request'[r].brandContext = EmptyContext)
         => /\ genArgs'[r].brandContext = EmptyContext
            /\ effSid'[r].t = "text"
            /\ StoreGet(contexts', effSid'[r].s) = EmptyContext
            /\ Truthy(request'[r].sessionId) => effSid'[r] = request'[r].sessionId
            /\ ~Truthy(request'[r].sessionId) => IsGeneratedForm(effSid'[r].s)]_vars

\* a stored TechCorp context was replaced by {}
C16_Witness ==
    /\ hpc[1] = "racing"
    /\ request[1].brandContext = EmptyContext
    /\ request[1].sessionId = Text("s1")
    /\ TechCorp \in everSupplied["s1"]
    /\ StoreGet(contexts, "s1") = EmptyContext
    /\ genArgs[1].brandContext = EmptyContext

\* C17: replace on re-supply.  When a valid request supplies a brand context
\* c and a session id s, the record under s is exactly c afterwards, with no
\* field of an earlier record, and generation is called with c as it is.
C17_ReplaceOnResupply ==
    [][\A r \in Slots :
         (Arrives(r) /\ IsValid(request'[r])
            /\ Truthy(request'[r].brandContext) /\ Truthy(request'[r].sessionId))
         => /\ StoreGet(contexts', request'[r].sessionId.s) = request'[r].brandContext
            /\ genArgs'[r].brandContext = request'[r].brandContext
            /\ effSid'[r] = request'[r].sessionId]_vars

\* a record {brandName} was replaced by a context {brandVoice}: no brandName
\* is left
C17_Witness ==
    \E r \in Slots :
        /\ hpc[r] = "racing"
        /\ request[r].brandContext = Playful
        /\ request[r].sessionId = Text("s1")
        /\ everSupplied["s1"] = {TechCorp, Playful}
        /\ DOMAIN contexts["s1"] = {"brandVoice"}
        /\ genArgs[r].brandContext = Playful


(***************************************************************************)
(* Vocabulary of the claims about BrandContextStore.                       *)
(***************************************************************************)
\* the old record with a field replaced only where partial carries a defined
\* value for it
MergeDefined(old, partial) ==
    LET defined == {f \in DOMAIN partial : partial[f] # UndefinedField}
    IN [f \in (DOMAIN old) \cup defined |->
           IF f \in defined THEN partial[f] ELSE old[f]]

\* C18: update.  update(id, partial) on an absent id creates a record equal
\* to partial; on an existing record it yields the old record with a field
\* replaced only where partial carries a defined value: a field that partial
\* holds with the value undefined keeps its stored value.
C18_UpdateMergesDefined ==
    [][lastOp'.op = "update"
         => contexts'[lastOp'.id] =
               IF StoreHas(contexts, lastOp'.id)
                 THEN MergeDefined(contexts[lastOp'.id], lastOp'.arg)
                 ELSE lastOp'.arg]_vars

\* C19: store-exclusive ownership.  A step that is not a set, update, delete
\* or clear - the caller assigning to a field of an object it passed to set
\* or got from get, among others - leaves what get returns for every id as
\* it was.
C19_StoreOwnsRecords ==
    [][lastOp'.op \notin {"set", "update", "delete", "clear"}
         => \A id \in StoreIds : StoreGet(contexts', id) = StoreGet(contexts, id)]_vars

\* the caller changed brandName of an object it holds and the record stored
\* under s1 still has the brandName it was stored with
C19_Witness ==
    /\ lastOp.op = "mutate"
    /\ held # <<>>
    /\ held[1].value["brandName"] = "Modified"
    /\ StoreHas(contexts, "s1")
    /\ contexts["s1"]["brandName"] = "TechCorp"

\* C20: the store is a plain map.  has(id) is true exactly for the ids
\* written by set or update since their last delete or clear; get(id) is
\* absent exactly when has(id) is false; size() is the number of ids for
\* which has is true; delete(id) returns true iff has(id) held just before.
C20_PlainMap ==
    /\ [](/\ \A id \in StoreIds :
               /\ StoreHas(contexts, id) <=> id \in live
               /\ (StoreGet(contexts, id) = Undefined) <=> ~StoreHas(contexts, id)
          /\ StoreSize(contexts) = Cardinality({id \in StoreIds : StoreHas(contexts, id)})
          /\ StoreSize(contexts) = Cardinality(live))
    /\ [][lastOp'.op = "delete" => (lastOp'.flag <=> lastOp'.id \in live)]_vars

\* of two stored records one was deleted, and delete returned true
C20_Witness ==
    /\ lastOp.op = "delete"
    /\ lastOp.id = "s1"
    /\ lastOp.flag
    /\ live = {"s2"}
    /\ StoreSize(contexts) = 1


(***************************************************************************)
(* Vocabulary of the claims about sanitization and validation.             *)
(***************************************************************************)
NoNullChars(runs) == \A i \in 1..Len(runs) : runs[i][1] # "nul"

NoEdgeWhitespace(runs) ==
    runs # <<>> => /\ ~IsWhitespace(runs[1][1])
                   /\ ~IsWhitespace(runs[Len(runs)][1])

NoAdjacentWhitespace(runs) ==
    \A i \in 1..Len(runs) :
        IsWhitespace(runs[i][1])
        => /\ runs[i][2] = 1
           /\ (i < Len(runs) => ~IsWhitespace(runs[i + 1][1]))

IsVisible(run) == ~IsWhitespace(run[1]) /\ run[1] # "nul"

\* the runs of visible characters, in order
Visible(runs) == SelectSeq(runs, IsVisible)

Rejected400(r, phrase) ==
    /\ sent[r] # <<>>
    /\ sent[r][1].status = 400
    /\ sent[r][1].success = FALSE
    /\ sent[r][1].error.t = "text"
    /\ Includes(sent[r][1].error.s, phrase)

SanitizedLength(b) == StrLength(sanitizeInput(b.message.runs))

\* the history of b is absent or an array of at most 50 well-formed entries
HistoryAcceptable(b) ==
    \/ b.history.t = "undefined"
    \/ /\ b.history.t = "array"
       /\ Len(b.history.items) <= 50
       /\ \A i \in 1..Len(b.history.items) :
              /\ EntryWellFormed(b.history.items[i])
              /\ Truthy(b.history.items[i].content)

\* C22: the message length limit is measured on the sanitized message.  A
\* request with a string message is answered with 400 and a text saying the
\* message exceeds maximum length exactly when its sanitized message is
\* longer than 5000 characters; with a sanitized length from 1 to 5000,
\* whatever the raw length, and an acceptable history, it reaches generation.
C22_MessageLengthLimit ==
    \A r \in Slots :
        (hpc[r] # "idle" /\ IsString(request[r].message))
        => /\ Rejected400(r, "message exceeds maximum length")
                <=> SanitizedLength(request[r]) > 5000
           /\ ( /\ SanitizedLength(request[r]) \in 1..5000
                /\ HistoryAcceptable(request[r]) )
              => /\ genArgs[r].called
                 /\ ~(sent[r] # <<>> /\ sent[r][1].status = 400)

\* a message of 5003 characters whose sanitized form has exactly 5000 was
\* accepted
C22_Witness ==
    /\ genArgs[1].called
    /\ request[1].message
          = Str(<<(<<"sp", 2>>), (<<"a", 5000>>), (<<"tab", 1>>)>>)
    /\ StrLength(request[1].message.runs) = 5003
    /\ StrLength(genArgs[1].message) = 5000
    /\ sent[1] = <<>>


\* the message of b passes the message checks
MessageAcceptable(b) ==
    IsString(b.message) /\ SanitizedLength(b) \in 1..5000

\* C23: the history length limit.  A request that passes the message checks
\* and brings a history array of more than 50 entries is answered with 400
\* and a text saying the history exceeds maximum length, whatever the entries
\* are; with exactly 50 well-formed entries it reaches generation.
C23_HistoryLengthLimit ==
    \A r \in Slots :
        ( /\ hpc[r] # "idle"
          /\ MessageAcceptable(request[r])
          /\ request[r].history.t = "array" )
        => /\ Len(request[r].history.items) > 50
              => Rejected400(r, "history exceeds maximum length")
           /\ ( /\ Len(request[r].history.items) = 50
                /\ HistoryAcceptable(request[r]) )
              => /\ genArgs[r].called
                 /\ Len(genArgs[r].history) = 50
                 /\ ~(sent[r] # <<>> /\ sent[r][1].status = 400)

\* 51 entries, none of them an object, were answered with the length error
C23_Witness ==
    /\ hpc[1] # "idle"
    /\ MessageAcceptable(request[1])
    /\ request[1].history = Arr(Repeat(Null, 51))
    /\ Rejected400(1, "history exceeds maximum length")
    /\ ~genArgs[1].called


\* some entry of the history of b lacks a non-empty role or has a content
\* that is not a string
SomeEntryIllFormed(b) ==
    \E i \in 1..Len(b.history.items) : ~EntryWellFormed(b.history.items[i])

\* C24: the history entry check.  A request that passes the message checks
\* and brings a history array of at most 50 entries is answered with 400
\* "history messages must have role and content" exactly when some entry
\* lacks a non-empty role or has a content that is not a string; otherwise it
\* reaches generation.
C24_HistoryEntryCheck ==
    \A r \in Slots :
        ( /\ hpc[r] # "idle"
          /\ MessageAcceptable(request[r])
          /\ request[r].history.t = "array"
          /\ Len(request[r].history.items) <= 50 )
        => /\ Rejected400(r, "history messages must have role and content")
                <=> SomeEntryIllFormed(request[r])
           /\ ~SomeEntryIllFormed(request[r]) => genArgs[r].called


\* C25: a request answered with 400 by validation has no side effect.  In
\* every step that leaves the request with a 400 answer, generation has not
\* been invoked for it and the session store is what it was before the step,
\* also when the request carries a brand context and a session id.
C25_RejectionHasNoEffect ==
    [][\A r \in Slots :
         (sent'[r] # <<>> /\ sent'[r][1].status = 400)
         => /\ ~genArgs'[r].called
            /\ genState'[r] = "none"
            /\ contexts' = contexts
            /\ effSid'[r] = Undefined]_vars

\* a rejected request that carried a brand context and a session id left
\* the store without a record for that id
C25_Witness ==
    /\ hpc[1] = "done"
    /\ sent[1] # <<>>
    /\ sent[1][1].status = 400
    /\ request[1].brandContext = TechCorp
    /\ request[1].sessionId = Text("s1")
    /\ ~StoreHas(contexts, "s1")
    /\ ~genArgs[1].called


(***************************************************************************)
(* Further claims about generateContent.                                   *)
(***************************************************************************)
\* the failure classes of the upstream outcomes so far, in order
Classes == [i \in 1..Len(outcomes) |-> FailureClass(outcomes[i])]

\* The fixed message a run that ends in an error raises, as a function of
\* the sequence of failure classes alone; "" when it is none of the fixed
\* messages.
ClassMessage(cs) ==
    IF cs = <<>> THEN ""
    ELSE LET last == cs[Len(cs)] IN
         CASE last = "auth" ->
                "API authentication failed. Please check your OpenAI API key."
           [] last = "invalidRequest" ->
                "Invalid request to OpenAI API. Please try rephrasing your message."
           [] last = "server" ->
                "OpenAI service is temporarily unavailable. Please try again in a moment."
           [] last = "network" ->
                "Network connection error. Please check your internet connection and try again."
           [] last \in {"rateLimit", "other"} ->
                IF \E i \in 1..Len(cs) : cs[i] = "rateLimit"
                  THEN "The service is experiencing high demand. Please wait a moment and try again."
                  ELSE ""
           [] OTHER -> ""

\* C26: upstream error text is confined.  The message generateContent raises
\* is decided by the sequence of failure classes whenever it is the 429, 401,
\* 400, >= 500 or network message, so two runs that see the same classes and
\* differ only in the upstream texts raise the same message; otherwise it is
\* "Unable to generate content: <text>. Please try again." with the text of
\* the last error, and only then does an upstream text occur in it.
C26_ErrorTextConfinement ==
    gpc = "thrown"
    => LET fixed == ClassMessage(Classes) IN
       /\ fixed # "" => gresult = fixed
       /\ fixed = ""
          => gresult = "Unable to generate content: "
                         \o (IF outcomes = <<>> THEN "Unknown error"
                             ELSE FailureText(outcomes[Len(outcomes)]))
                         \o ". Please try again."
       /\ \A i \in 1..Len(outcomes) :
             (outcomes[i].kind = "error" /\ Includes(gresult, outcomes[i].text))
             => fixed = ""

\* three server errors with three different texts ended in the fixed message
C26_Witness ==
    /\ gpc = "thrown"
    /\ outcomes = <<UpstreamError(503, "Service down"),
                    UpstreamError(503, "Failed to fetch"),
                    UpstreamError(503, "network unreachable")>>
    /\ gresult = "OpenAI service is temporarily unavailable. Please try again in a moment."


\* C28: an upstream call that succeeds with empty or absent content is a
\* failed attempt of the generic class.  After such an outcome on an attempt
\* that is not the last, generateContent waits 1 second and then issues the
\* next call; when all maxRetries attempts returned empty content it has
\* thrown "Unable to generate content: No response from OpenAI. Please try
\* again.".
C28_EmptyResponseRetried ==
    /\ \A i \in 1..Len(outcomes) :
          (outcomes[i] = Completion("") /\ i < maxRetries)
          => /\ Len(waits) >= i
             /\ waits[i] = 1000
             /\ \/ Len(outcomes) = i /\ gpc = "awaitDelay" /\ calls = i
                \/ calls > i
    /\ ( /\ maxRetries >= 1
         /\ Len(outcomes) = maxRetries
         /\ \A i \in 1..Len(outcomes) : outcomes[i] = Completion("") )
       => /\ gpc = "thrown"
          /\ calls = maxRetries
          /\ waits = [k \in 1..(maxRetries - 1) |-> 1000]
          /\ gresult = "Unable to generate content: No response from OpenAI. Please try again."

\* three empty responses in a row
C28_Witness ==
    /\ maxRetries = 3
    /\ outcomes = <<Completion(""), Completion(""), Completion("")>>
    /\ gpc = "thrown"
    /\ waits = <<1000, 1000>>
    /\ Includes(gresult, "No response from OpenAI")


\* C29: attempts are sequential.  At most one upstream call is outstanding;
\* a further call is issued only by the step in which the delay after a
\* failed attempt elapses; the attempt counter starts at 0, moves by one, is
\* the number of settled calls while a call is outstanding and below
\* maxRetries then; and a run that has started ends by returning content or
\* by raising an error.
C29_SequentialAttempts ==
    /\ [](/\ calls - Len(outcomes) = (IF gpc = "awaitUpstream" THEN 1 ELSE 0)
          /\ gpc = "awaitUpstream"
                => /\ attempt = Len(outcomes)
                   /\ attempt \in 0..(maxRetries - 1)
                   /\ Len(waits) = attempt
          /\ attempt <= maxRetries)
    /\ [][/\ calls' \in {calls, calls + 1}
          /\ (calls' = calls + 1 /\ calls > 0)
                => /\ gpc = "awaitDelay"
                   /\ FailureClass(outcomes[Len(outcomes)]) # "success"
                   /\ attempt' = attempt + 1
          /\ (calls' = calls + 1 /\ calls = 0) => (gpc = "idle" /\ attempt' = 0)
          /\ gpc # "idle" => attempt' \in {attempt, attempt + 1}]_vars
    /\ (gpc # "idle") ~> (gpc \in {"returned", "thrown"})
    /\ [](gpc \in {"returned", "thrown"} => [](gpc \in {"returned", "thrown"}))

\* the third attempt is outstanding after two failed attempts and two delays
C29_Witness ==
    /\ gpc = "awaitUpstream"
    /\ attempt = 2
    /\ calls = 3
    /\ Len(outcomes) = 2
    /\ waits = <<1000, 2000>>


\* the history entries of the running call that are passed on
IsChatEntry(e) == e.role \in {"user", "assistant"}
ChatEntries == SelectSeq(genInput.conversationHistory, IsChatEntry)

\* the list is: a system message, the user and assistant entries of the
\* history in their order, the new user message
WellBuilt(list) ==
    /\ Len(list) = 2 + Len(ChatEntries)
    /\ list[1].role = "system"
    /\ list[1].content
          = buildSystemPrompt(genInput.userMessage, genInput.brandContext)
    /\ \A k \in 1..Len(ChatEntries) :
          /\ list[k + 1].role = ChatEntries[k].role
          /\ list[k + 1].content = ChatEntries[k].content
    /\ \A k \in 2..(Len(list) - 1) : list[k].role # "system"
    /\ list[Len(list)] = [role |-> "user", content |-> genInput.userMessage]

\* C30: the message list.  Every upstream call of a generateContent run is
\* sent the same list: the system prompt first, then the history entries
\* with role user or assistant in their original order (system entries are
\* dropped), then the new user message; its length is 2 plus the number of
\* user and assistant entries of the history.
C30_MessageList ==
    /\ Len(sentMessages) = calls
    /\ \A i \in 1..Len(sentMessages) :
          /\ WellBuilt(sentMessages[i])
          /\ sentMessages[i] = sentMessages[1]

\* the history user, system, assistant went upstream three times as a list
\* of four messages
C30_Witness ==
    /\ calls = 3
    /\ Len(sentMessages) = 3
    /\ Len(genInput.conversationHistory) = 3
    /\ genInput.conversationHistory[2].role = "system"
    /\ Len(sentMessages[3]) = 4
    /\ sentMessages[3][2].content = "entry 1"
    /\ sentMessages[3][3].content = "entry 3"
    /\ sentMessages[3][4].content = genInput.userMessage


\* C27: InputBox never calls onSend with an empty or whitespace-only message:
\* whatever the text, a click on Send or an Enter key press sends a non-empty
\* message with something other than whitespace in it, or sends nothing.
C27_NeverSendsEmpty ==
    \A i \in 1..Len(onSendCalls) :
        /\ StrLength(onSendCalls[i]) > 0
        /\ StrLength(Trim(onSendCalls[i])) > 0


(***************************************************************************)
(* Claims about the prompt builder.                                        *)
(***************************************************************************)
\* the keyword families in their priority order, and their templates
KeywordFamilies ==
    <<{"blog", "article"},
      {"twitter", "x", "linkedin", "facebook", "instagram", "social media"},
      {"email"},
      {"ad", "advertisement"},
      {"campaign strategy", "marketing strategy"},
      {"campaign idea", "campaign concept"}>>

FamilyTemplates ==
    <<"blogPost", "socialMedia", "emailMarketing", "adCopy", "campaignStrategy",
      "campaignIdeas">>

\* family k has a keyword that occurs in the lower-cased message m
FamilyMatches(k, m) ==
    \E kw \in KeywordFamilies[k] : Includes(toLowerCase(m), kw)

\* C31: template selection priority.  The system prompt of a call is built
\* from the template of the first keyword family, in the order blog/article,
\* social platforms, email, ad, campaign strategy, campaign idea, that has a
\* keyword occurring in the lower-cased user message, and from the general
\* template exactly when no family matches.
C31_TemplatePriority ==
    gpc # "idle"
    => LET m == genInput.userMessage
           t == messages[1].content.template
       IN  /\ \A k \in 1..Len(KeywordFamilies) :
                 (FamilyMatches(k, m) /\ \A j \in 1..(k - 1) : ~FamilyMatches(j, m))
                 => t = FamilyTemplates[k]
           /\ t = "general" <=> \A k \in 1..Len(KeywordFamilies) : ~FamilyMatches(k, m)
           /\ messages[1].content.brandContext = genInput.brandContext

\* a message with "campaign strategy" and "campaign idea", no earlier keyword
C31_Witness ==
    /\ gpc # "idle"
    /\ genInput.userMessage = "campaign strategy and campaign idea"
    /\ messages[1].content.template = "campaignStrategy"


\* C32: bounded attempts and termination.  For every maxRetries >= 0 and
\* every sequence of upstream outcomes, generateContent makes at most
\* maxRetries upstream calls and, when every upstream call settles and every
\* delay elapses, ends by returning content or raising an error; with
\* maxRetries = 0 it makes no call and raises "Unable to generate content:
\* Unknown error. Please try again.".
C32_BoundedAttempts ==
    /\ [](gpc # "idle" => calls <= maxRetries)
    /\ [](gpc = "returned" => FailureClass(outcomes[Len(outcomes)]) = "success")
    /\ []((gpc # "idle" /\ maxRetries = 0)
            => /\ gpc = "thrown"
               /\ calls = 0
               /\ gresult = "Unable to generate content: Unknown error. Please try again.")
    /\ (gpc \in {"awaitUpstream", "awaitDelay"}) ~> (gpc \in {"returned", "thrown"})

\* three failures of three classes used up maxRetries = 3
C32_Witness ==
    /\ gpc = "thrown"
    /\ maxRetries = 3
    /\ calls = 3
    /\ Len(outcomes) = 3
    /\ FailureClass(outcomes[1]) = "rateLimit"
    /\ FailureClass(outcomes[2]) = "server"
    /\ FailureClass(outcomes[3]) = "other"


\* C33: no delay after the final attempt.  Once the maxRetries-th attempt has
\* failed, whatever the failure class, the error has been raised and no
\* delay was started after that attempt: the delays of a run are at most
\* maxRetries - 1, each between two attempts.
C33_NoDelayAfterFinalAttempt ==
    ( /\ maxRetries >= 1
      /\ Len(outcomes) = maxRetries
      /\ FailureClass(outcomes[maxRetries]) # "success" )
    => /\ gpc = "thrown"
       /\ Len(waits) <= maxRetries - 1


\* C34: at most one response per request.  A response is written for a
\* request only while none has been written for it, whichever of the
\* success path, the error path, the 29 s deadline and the 30 s response
\* timer writes it; a generation result that arrives after the request was
\* answered changes nothing; and no second write is ever attempted.
C34_AtMostOneResponse ==
    [][\A r \in Slots :
         /\ (sent'[r] # sent[r] /\ hpc'[r] # "idle")
               => (sent[r] = <<>> /\ Len(sent'[r]) = 1)
         /\ ( /\ genState[r] = "pending"
              /\ genState'[r] \in {"resolved", "rejected"}
              /\ hpc[r] = "done" )
               => (sent'[r] = sent[r] /\ hpc'[r] = "done")
         /\ ~escaped'[r]]_vars

\* the generation result arrived after the deadline had answered with 500
C34_Witness ==
    /\ hpc[1] = "done"
    /\ fired[1] = {"generation"}
    /\ genState[1] = "resolved"
    /\ Len(sent[1]) = 1
    /\ sent[1][1].status = 500


\* C35: own context wins under interleaving.  A valid request that supplies
\* a brand context calls generation with exactly that context; one that
\* supplies none and names a session with a stored record calls it with the
\* record stored at that moment; and the arguments of a request in flight
\* stay what they are whatever other requests write to the store meanwhile.
C35_OwnContextWins ==
    [][\A r \in Slots :
         /\ (Arrives(r) /\ IsValid(request'[r]) /\ Truthy(request'[r].brandContext))
               => /\ genArgs'[r].called
                  /\ genArgs'[r].brandContext = request'[r].brandContext
         /\ ( /\ Arrives(r)
              /\ IsValid(request'[r])
              /\ LoadsFromSession(request'[r])
              /\ StoreHas(contexts, request'[r].sessionId.s) )
               => /\ genArgs'[r].called
                  /\ genArgs'[r].brandContext
                        = Obj(contexts[request'[r].sessionId.s])
         /\ (hpc[r] # "idle" /\ hpc'[r] # "idle")
               => (genArgs'[r] = genArgs[r] /\ request'[r] = request[r])]_vars

\* request 1 brought TechCorp under s1 and is still generating with it while
\* the store holds what request 2 wrote under s1 since
C35_Witness ==
    /\ hpc[1] = "racing"
    /\ hpc[2] # "idle"
    /\ request[1].sessionId = Text("s1")
    /\ request[1].brandContext = TechCorp
    /\ request[2].sessionId = Text("s1")
    /\ request[2].brandContext = Playful
    /\ genArgs[1].brandContext = TechCorp
    /\ StoreGet(contexts, "s1") = Playful


\* request r brought a brand context, reached generation and was answered 500
FailedWithContext(r) ==
    /\ hpc[r] = "done"
    /\ genArgs[r].called
    /\ Truthy(request[r].brandContext)
    /\ sent[r] # <<>>
    /\ sent[r][1].status = 500

\* C36: the store write is not tied to generation success.  The brand
\* context of a valid request is in the store, under the id it is supplied
\* under, in the step that starts its generation; the step that ends a request
\* (200, or 500 by a rejected generation or the deadline) leaves the store as
\* it is; and a valid request without a context that names the session of a
\* request answered 500 calls generation with the context last supplied under
\* that session, which is the failed request's own when no other was supplied
\* under it.
C36_StoreSurvivesFailure ==
    [][\A r \in Slots :
         /\ (Arrives(r) /\ IsValid(request'[r]) /\ Truthy(request'[r].brandContext))
               => /\ genState'[r] = "pending"
                  /\ sent'[r] = <<>>
                  /\ StoreGet(contexts', effSid'[r].s) = request'[r].brandContext
         /\ (hpc[r] = "racing" /\ hpc'[r] = "done") => contexts' = contexts
         /\ FailedWithContext(r)
               => /\ StoreGet(contexts, effSid[r].s) = lastSupplied[effSid[r].s]
                  /\ (everSupplied[effSid[r].s] = {request[r].brandContext}
                        => StoreGet(contexts, effSid[r].s) = request[r].brandContext)
         /\ \A q \in Slots \ {r} :
               ( /\ FailedWithContext(r)
                 /\ Arrives(q)
                 /\ IsValid(request'[q])
                 /\ LoadsFromSession(request'[q])
                 /\ request'[q].sessionId = effSid[r] )
               => /\ genArgs'[q].called
                  /\ genArgs'[q].brandContext = lastSupplied[effSid[r].s]
                  /\ (everSupplied[effSid[r].s] = {request[r].brandContext}
                        => genArgs'[q].brandContext = request[r].brandContext)]_vars

\* request 1 brought TechCorp with no session id and was answered 500 by the
\* deadline; request 2 names the generated session, brings no context and
\* generates with TechCorp
C36_Witness ==
    /\ hpc[1] = "done"
    /\ FailedWithContext(1)
    /\ fired[1] = {"generation"}
    /\ request[1].brandContext = TechCorp
    /\ request[1].sessionId = Undefined
    /\ hpc[2] = "racing"
    /\ request[2].brandContext = Undefined
    /\ request[2].sessionId = effSid[1]
    /\ everSupplied[effSid[1].s] = {TechCorp}
    /\ genArgs[2].brandContext = TechCorp


\* the request names a session: a non-empty string
SuppliesSessionId(b) == b.sessionId.t = "text" /\ b.sessionId.s # ""

\* the request brings a brand context: an object
SuppliesContext(b) == b.brandContext.t = "object"

\* C37: session id in the response.  A 200 answer has a sessionId exactly
\* when the request named a session or brought a brand context, and the id of
\* a request that named one is the one it named; a valid request that names a
\* session unknown to the store and brings no context calls generation with
\* no brand context and leaves the store as it is, then and when it is
\* answered.
C37_SessionIdInResponse ==
    [][\A r \in Slots :
         /\ Answered200(r)
               => /\ (sent'[r][1].sessionId # Undefined)
                        <=> (SuppliesSessionId(request[r]) \/ SuppliesContext(request[r]))
                  /\ SuppliesSessionId(request[r])
                        => sent'[r][1].sessionId = request[r].sessionId
                  /\ ~SuppliesContext(request[r]) => contexts' = contexts
         /\ ( /\ Arrives(r)
              /\ IsValid(request'[r])
              /\ SuppliesSessionId(request'[r])
              /\ ~SuppliesContext(request'[r])
              /\ ~StoreHas(contexts, request'[r].sessionId.s) )
               => /\ genArgs'[r].called
                  /\ genArgs'[r].brandContext = Undefined
                  /\ contexts' = contexts]_vars

\* a request naming s1 with no context, s1 unknown to the store, was answered
\* 200 with sessionId s1 after generating without a brand context, and the
\* store is empty
C37_Witness ==
    /\ hpc[1] = "done"
    /\ sent[1] # <<>>
    /\ sent[1][1].status = 200
    /\ request[1].sessionId = Text("s1")
    /\ request[1].brandContext = Undefined
    /\ sent[1][1].sessionId = Text("s1")
    /\ genArgs[1].brandContext = Undefined
    /\ contexts = EmptyMap


\* the call of chatClient.sendMessage that call n resubmits: the latest call
\* up to n that was not made through Retry
RECURSIVE OriginOf(_)
OriginOf(n) ==
    IF n <= 1 \/ sendMessageCalls[n].via # "retry" THEN n ELSE OriginOf(n - 1)

\* the latest call of chatClient.sendMessage
LastCall == sendMessageCalls[Len(sendMessageCalls)]

\* the latest call came from Retry
Retried == sendMessageCalls # <<>> /\ LastCall.via = "retry"

\* C38: UI retry leaves a clean conversation.  A call of chatClient.sendMessage
\* made through Retry carries the text of the send it resubmits and the
\* history that send carried (the list without the failed user message and
\* without the error bubble); and once it has succeeded the list is that
\* history, the user message once, and the assistant response.
C38_RetryLeavesCleanConversation ==
    Retried =>
        LET origin == sendMessageCalls[OriginOf(Len(sendMessageCalls))] IN
        /\ LastCall.message = origin.message
        /\ LastCall.history = origin.history
        /\ (~isLoading /\ appError = Null)
              => /\ Len(appMessages) = Len(origin.history) + 2
                 /\ SubSeq(appMessages, 1, Len(origin.history)) = origin.history
                 /\ appMessages[Len(appMessages) - 1] = UserMessage(origin.message)
                 /\ appMessages[Len(appMessages)].role = "assistant"

\* the same text is resubmitted by one call per click on Retry
C38_SameTextOnce ==
    [][(Truthy(lastFailedMessage) /\ ~isLoading /\ isLoading'
          /\ sendMessageCalls' # sendMessageCalls
          /\ sendMessageCalls'[Len(sendMessageCalls')].via = "retry")
        => /\ Len(sendMessageCalls') = Len(sendMessageCalls) + 1
           /\ sendMessageCalls'[Len(sendMessageCalls')].message
                 = lastFailedMessage.s]_vars

\* a first send failed, Retry was clicked and the resubmission succeeded
C38_Witness ==
    /\ Len(sendMessageCalls) = 2
    /\ Retried
    /\ ~isLoading
    /\ appError = Null
    /\ appMessages[Len(appMessages)] = AssistantMessage("Success!")


====
